---- MODULE Spec2Model ----
(***************************************************************************)
(* SEO Toolkit: the metadata analysis engine (core scorer, keyword,        *)
(* content-quality and technical analyzers, checklist, duplicate detector, *)
(* report aggregator).                                                     *)
(*                                                                         *)
(* A JavaScript string is modelled as a sequence of one-character strings, *)
(* so that length, trimming, case folding, tokenisation and substring      *)
(* tests are computed the way the code computes them.                      *)
(***************************************************************************)
EXTENDS Integers, Sequences, FiniteSets, TLC

VARIABLES
    metadata,      \* the PageMetadata record handed to a per-page entry point
    metadataList,  \* the PageMetadata[] handed to findDuplicates / generateSEOReport
    textInput,     \* the string handed to calculateReadability
    call,          \* the entry point that ran last ("none" before any call)
    outcome,       \* what that call produced: [threw, error, value]
    batch,         \* a running extractMetadataBatch: its arguments, locals and position
    selectedRows,  \* the selection of the Metadata Analyzer page: a set of indices
    selectedRowForAI, \* the row the AI generator of the page is open for (NoRow: null)
    loadTime,      \* the number handed to calculatePerformanceScore
    localStorage,  \* window.localStorage: the stored string of each key
    savedResults   \* history: the results saveLighthouseResult was called with, by url

vars ==
    <<metadata, metadataList, textInput, call, outcome, batch, selectedRows,
      selectedRowForAI, loadTime, localStorage, savedResults>>

\* null
Null == << "null" >>

\* selectedRowForAI is the set of the one index it holds: empty for null
NoRow == {}

\* no load time has been measured
NoLoadTime == Null

\* a localStorage without any key
EmptyStorage == << >>

\* saveLighthouseResult has not been called
NothingSaved == << >>

----------------------------------------------------------------------------
(* Characters and strings                                                  *)

EmptyString == << >>

UpperCase == <<"A","B","C","D","E","F","G","H","I","J","K","L","M","N","O","P","Q","R","S","T","U","V","W","X","Y","Z">>
LowerCase == <<"a","b","c","d","e","f","g","h","i","j","k","l","m","n","o","p","q","r","s","t","u","v","w","x","y","z">>
DigitChars == <<"0","1","2","3","4","5","6","7","8","9">>

Range(f) == {f[i] : i \in DOMAIN f}

UpperSet == Range(UpperCase)
LowerSet == Range(LowerCase)
DigitSet == Range(DigitChars)

\* String.prototype.toLowerCase, one character
LowerChar(c) ==
    IF c \in UpperSet
    THEN LowerCase[CHOOSE i \in DOMAIN UpperCase : UpperCase[i] = c]
    ELSE c

\* the sequence f written out element by element
Materialize(f) == SubSeq(f, 1, Len(f))

\* const name = value; Body(name): the value is computed once and named
Bind(value, Body(_)) == Body(value)

\* <<1, ..., n>>
Indices(n) == Materialize([i \in 1..n |-> i])

\* a character-wise replacement
MapChars(s, F(_)) == Materialize([i \in 1..Len(s) |-> F(s[i])])

\* the sum of the numbers f[lo], ..., f[hi]
RECURSIVE SumRange(_, _, _)
SumRange(f, lo, hi) ==
    IF lo > hi THEN 0
    ELSE IF lo = hi THEN f[lo]
    ELSE LET mid == (lo + hi) \div 2
         IN  SumRange(f, lo, mid) + SumRange(f, mid + 1, hi)

Sum(f) == SumRange(f, 1, Len(f))

\* String.prototype.toLowerCase
toLowerCase(s) == MapChars(s, LowerChar)

\* the regex class \s
IsSpace(c) == c \in {" ", "\t", "\n", "\r"}

\* the regex class \w
WordChars == UpperSet \cup LowerSet \cup DigitSet \cup {"_"}
IsWordChar(c) == c \in WordChars

\* the truthiness of a string: non-empty
Truthy(s) == Len(s) > 0

\* String.prototype.trim
trim(s) ==
    LET keep == {i \in 1..Len(s) : ~IsSpace(s[i])}
    IN  IF keep = {} THEN EmptyString
        ELSE LET lo == CHOOSE i \in keep : \A j \in keep : i <= j
                 hi == CHOOSE i \in keep : \A j \in keep : i >= j
             IN  SubSeq(s, lo, hi)

\* String.prototype.includes
includes(s, sub) ==
    \E i \in 0..(Len(s) - Len(sub)) :
        \A j \in 1..Len(sub) : s[i + j] = sub[j]

\* String.prototype.substring(0, n)
substring0(s, n) == SubSeq(s, 1, IF n < Len(s) THEN n ELSE Len(s))

\* the decimal text of a non-negative integer (template literal ${n})
RECURSIVE NumberToString(_)
NumberToString(n) ==
    IF n < 10 THEN <<DigitChars[n + 1]>>
    ELSE NumberToString(n \div 10) \o <<DigitChars[(n % 10) + 1]>>

\* a string of exactly n characters that repeats pat
Fill(pat, n) == Materialize([i \in 1..n |-> pat[((i - 1) % Len(pat)) + 1]])

\* Array.prototype.join(' ') over the non-empty strings of parts
\* ([...].filter(Boolean).join(' '))
RECURSIVE JoinTruthy(_)
JoinTruthy(parts) ==
    IF parts = << >> THEN EmptyString
    ELSE LET rest == JoinTruthy(Tail(parts))
         IN  IF ~Truthy(Head(parts)) THEN rest
             ELSE IF rest = EmptyString THEN Head(parts)
             ELSE Head(parts) \o <<" ">> \o rest

----------------------------------------------------------------------------
(* Core scorer: src/lib/seo-optimizer.ts                                   *)

TitleMin == 30
TitleMax == 60
DescMin == 120
DescMax == 160

Max(a, b) == IF a >= b THEN a ELSE b
Min(a, b) == IF a <= b THEN a ELSE b

\* the title block of analyzeSEO: [issues, suggestions, penalty]
TitleCheck(titleLength) ==
    IF titleLength = 0 THEN
        [issues |-> << <<"M","i","s","s","i","n","g"," ","t","i","t","l","e"," ","t","a","g">> >>, suggestions |-> << >>, penalty |-> 20]
    ELSE IF titleLength < TitleMin THEN
        [issues |-> << <<"T","i","t","l","e"," ","t","o","o"," ","s","h","o","r","t"," ","(">> \o NumberToString(titleLength) \o <<" ","c","h","a","r","s",","," ","r","e","c","o","m","m","e","n","d","e","d",":"," ","3","0","-","6","0",")">> >>,
         suggestions |-> << <<"E","x","p","a","n","d"," ","t","i","t","l","e"," ","t","o"," ","3","0","-","6","0"," ","c","h","a","r","a","c","t","e","r","s"," ","f","o","r"," ","b","e","t","t","e","r"," ","S","E","O">> >>,
         penalty |-> 10]
    ELSE IF titleLength > TitleMax THEN
        [issues |-> << <<"T","i","t","l","e"," ","t","o","o"," ","l","o","n","g"," ","(">> \o NumberToString(titleLength) \o <<" ","c","h","a","r","s",","," ","r","e","c","o","m","m","e","n","d","e","d",":"," ","3","0","-","6","0",")">> >>,
         suggestions |-> << <<"S","h","o","r","t","e","n"," ","t","i","t","l","e"," ","t","o"," ","6","0"," ","c","h","a","r","a","c","t","e","r","s"," ","o","r"," ","l","e","s","s">> >>,
         penalty |-> 10]
    ELSE [issues |-> << >>, suggestions |-> << >>, penalty |-> 0]

\* the description block of analyzeSEO
DescriptionCheck(descLength) ==
    IF descLength = 0 THEN
        [issues |-> << <<"M","i","s","s","i","n","g"," ","m","e","t","a"," ","d","e","s","c","r","i","p","t","i","o","n">> >>, suggestions |-> << >>, penalty |-> 20]
    ELSE IF descLength < DescMin THEN
        [issues |-> << <<"D","e","s","c","r","i","p","t","i","o","n"," ","t","o","o"," ","s","h","o","r","t"," ","(">> \o NumberToString(descLength) \o <<" ","c","h","a","r","s",","," ","r","e","c","o","m","m","e","n","d","e","d",":"," ","1","2","0","-","1","6","0",")">> >>,
         suggestions |-> << <<"E","x","p","a","n","d"," ","d","e","s","c","r","i","p","t","i","o","n"," ","t","o"," ","1","2","0","-","1","6","0"," ","c","h","a","r","a","c","t","e","r","s">> >>,
         penalty |-> 10]
    ELSE IF descLength > DescMax THEN
        [issues |-> << <<"D","e","s","c","r","i","p","t","i","o","n"," ","t","o","o"," ","l","o","n","g"," ","(">> \o NumberToString(descLength) \o <<" ","c","h","a","r","s",","," ","r","e","c","o","m","m","e","n","d","e","d",":"," ","1","2","0","-","1","6","0",")">> >>,
         suggestions |-> << <<"S","h","o","r","t","e","n"," ","d","e","s","c","r","i","p","t","i","o","n"," ","t","o"," ","1","6","0"," ","c","h","a","r","a","c","t","e","r","s"," ","o","r"," ","l","e","s","s">> >>,
         penalty |-> 10]
    ELSE [issues |-> << >>, suggestions |-> << >>, penalty |-> 0]

\* a block that deducts 5 whatever the field
MissingCheckFlat(value, issue, suggestion, points) ==
    IF ~Truthy(value)
    THEN [issues |-> <<issue>>, suggestions |-> <<suggestion>>, penalty |-> 5]
    ELSE [issues |-> << >>, suggestions |-> << >>, penalty |-> 0]

\* one "if (!metadata.<field>)" block of analyzeSEO
MissingCheck(value, issue, suggestion, points) ==
    IF ~Truthy(value)
    THEN [issues |-> <<issue>>, suggestions |-> <<suggestion>>, penalty |-> points]
    ELSE [issues |-> << >>, suggestions |-> << >>, penalty |-> 0]

\* the checks of analyzeSEO in the order the code runs them
SEOChecks(m) ==
    << TitleCheck(Len(m.title)),
       DescriptionCheck(Len(m.description)),
       MissingCheck(m.h1, <<"M","i","s","s","i","n","g"," ","H","1"," ","t","a","g">>,
                    <<"A","d","d"," ","a","n"," ","H","1"," ","t","a","g"," ","t","h","a","t"," ","s","u","m","m","a","r","i","z","e","s"," ","t","h","e"," ","p","a","g","e"," ","c","o","n","t","e","n","t">>, 10),
       MissingCheck(m.ogTitle, <<"M","i","s","s","i","n","g"," ","O","p","e","n"," ","G","r","a","p","h"," ","t","i","t","l","e">>,
                    <<"A","d","d"," ","o","g",":","t","i","t","l","e"," ","f","o","r"," ","b","e","t","t","e","r"," ","s","o","c","i","a","l"," ","m","e","d","i","a"," ","s","h","a","r","i","n","g">>, 5),
       MissingCheck(m.ogDescription, <<"M","i","s","s","i","n","g"," ","O","p","e","n"," ","G","r","a","p","h"," ","d","e","s","c","r","i","p","t","i","o","n">>,
                    <<"A","d","d"," ","o","g",":","d","e","s","c","r","i","p","t","i","o","n"," ","f","o","r"," ","b","e","t","t","e","r"," ","s","o","c","i","a","l"," ","m","e","d","i","a"," ","s","h","a","r","i","n","g">>, 5),
       MissingCheck(m.ogImage, <<"M","i","s","s","i","n","g"," ","O","p","e","n"," ","G","r","a","p","h"," ","i","m","a","g","e">>,
                    <<"A","d","d"," ","o","g",":","i","m","a","g","e"," ","f","o","r"," ","b","e","t","t","e","r"," ","s","o","c","i","a","l"," ","m","e","d","i","a"," ","p","r","e","v","i","e","w","s">>, 5),
       MissingCheck(m.canonical, <<"M","i","s","s","i","n","g"," ","c","a","n","o","n","i","c","a","l"," ","U","R","L">>,
                    <<"A","d","d"," ","c","a","n","o","n","i","c","a","l"," ","U","R","L"," ","t","o"," ","p","r","e","v","e","n","t"," ","d","u","p","l","i","c","a","t","e"," ","c","o","n","t","e","n","t"," ","i","s","s","u","e","s">>, 5) >>

SumPenalty(cs) == Sum([k \in 1..Len(cs) |-> cs[k].penalty])

RECURSIVE ConcatIssues(_)
ConcatIssues(cs) == IF cs = << >> THEN << >> ELSE Head(cs).issues \o ConcatIssues(Tail(cs))

RECURSIVE ConcatSuggestions(_)
ConcatSuggestions(cs) ==
    IF cs = << >> THEN << >> ELSE Head(cs).suggestions \o ConcatSuggestions(Tail(cs))

\* analyzeSEO of src/lib/seo-optimizer.ts
analyzeSEO(m) ==
    Bind(SEOChecks(m), LAMBDA cs :
        [score |-> Max(0, 100 - SumPenalty(cs)),
         issues |-> ConcatIssues(cs),
         suggestions |-> ConcatSuggestions(cs),
         characterCounts |->
            [title |-> [current |-> Len(m.title),
                        recommended |-> [min |-> TitleMin, max |-> TitleMax]],
             description |-> [current |-> Len(m.description),
                              recommended |-> [min |-> DescMin, max |-> DescMax]]]])


----------------------------------------------------------------------------
(* Duplicate detector: findDuplicates of src/lib/seo-optimizer.ts, lines   *)
(* 96-136 (repeated in src/lib/storage.ts, lines 501-541)                  *)

\* value.toLowerCase() alone: the key without its trim
NormalizedUntrimmed(value) == toLowerCase(value)

\* value.toLowerCase().trim()
Normalized(value) == trim(toLowerCase(value))

\* Map.prototype.set, the Map kept as its [key, value] entries in insertion
\* order: a key already present keeps its place and takes the new value
MapSet(map, key, value) ==
    IF \E i \in DOMAIN map : map[i].key = key
    THEN Materialize([i \in 1..Len(map) |->
                         IF map[i].key = key THEN [key |-> key, value |-> value] ELSE map[i]])
    ELSE Append(map, [key |-> key, value |-> value])

\* titleMap / descMap after the first forEach: a page whose value is falsy is
\* skipped; the others are grouped under their normalized value, groups in
\* first-seen order, each holding the zero-based positions of its pages
GroupByNormalized(values) ==
    Bind(Materialize([i \in 1..Len(values) |-> Normalized(values[i])]), LAMBDA norm :
    Bind(SelectSeq(Indices(Len(values)), LAMBDA i : Truthy(values[i])), LAMBDA kept :
    Bind(SelectSeq(kept, LAMBDA i : \A j \in 1..(i - 1) :
                                        Truthy(values[j]) => norm[j] # norm[i]),
         LAMBDA first :
        Materialize([k \in 1..Len(first) |->
            Bind(SelectSeq(kept, LAMBDA i : norm[i] = norm[first[k]]), LAMBDA members :
                [key |-> norm[first[k]],
                 value |-> Materialize([q \in 1..Len(members) |-> members[q] - 1])])]))))

TitleLabel(title) == <<"D","u","p","l","i","c","a","t","e"," ","t","i","t","l","e",":"," ","\"">> \o title \o <<"\"">>

DescriptionLabelLength == 50

DescriptionLabel(desc) ==
    <<"D","u","p","l","i","c","a","t","e"," ","d","e","s","c","r","i","p","t","i","o","n",":"," ","\"">> \o substring0(desc, DescriptionLabelLength) \o <<".",".",".","\"">>

\* the groups a second forEach reports: those with more than one page, under
\* their label
Reported(groups, Label(_)) ==
    Bind(SelectSeq(groups, LAMBDA g : Len(g.value) > 1), LAMBDA big :
        Materialize([k \in 1..Len(big) |-> [key |-> Label(big[k].key), value |-> big[k].value]]))

\* duplicates.set(label, indices) for each reported group in turn
RECURSIVE SetAll(_, _)
SetAll(map, entries) ==
    IF entries = << >> THEN map
    ELSE SetAll(MapSet(map, Head(entries).key, Head(entries).value), Tail(entries))

FieldOf(list, field) == Materialize([i \in 1..Len(list) |-> list[i][field]])

\* the returned Map, as its [key, value] entries in insertion order
findDuplicates(list) ==
    Bind(GroupByNormalized(FieldOf(list, "title")), LAMBDA titleMap :
    Bind(GroupByNormalized(FieldOf(list, "description")), LAMBDA descMap :
        SetAll(SetAll(<< >>, Reported(titleMap, TitleLabel)),
               Reported(descMap, DescriptionLabel))))

----------------------------------------------------------------------------
(* Core scorer with category scores and priority issues:                   *)
(* analyzeSEO of src/lib/storage.ts, lines 352-499                         *)

\* the names the function body declares (parameter, const and let bindings)
DeclaredNames ==
    {"metadata", "issues", "suggestions", "score", "titleLength", "descLength",
     "onPageScore", "technicalScore", "contentScore", "socialScore", "priorityIssues"}

\* the bare identifiers the category block evaluates, in evaluation order,
\* whatever the input: line 431 if (!h1), 434 if (!canonical), 440 if (!ogTitle),
\* 441 if (!ogDescription), 442 if (!ogImage)
CategoryReads == <<"h1", "canonical", "ogTitle", "ogDescription", "ogImage">>

\* evaluating an identifier no scope declares raises a ReferenceError
Unresolved(reads) == SelectSeq(reads, LAMBDA id : id \notin DeclaredNames)

Returned(v) == [threw |-> FALSE, error |-> "", value |-> v]
Thrown(e, what) == [threw |-> TRUE, error |-> e, value |-> what]

\* the category deductions (lines 419-442) and the priority list (445-475),
\* given what the bare identifiers evaluate to
CategoryBlock(m, titleLength, descLength, env) ==
    LET lenBad(n, lo, hi) == n < lo \/ n > hi
        onPage == 100
            - (IF titleLength = 0 THEN 25 ELSE IF lenBad(titleLength, TitleMin, TitleMax) THEN 10 ELSE 0)
            - (IF descLength = 0 THEN 25 ELSE IF lenBad(descLength, DescMin, DescMax) THEN 10 ELSE 0)
            - (IF ~Truthy(env.h1) THEN 15 ELSE 0)
        technical == 100 - (IF ~Truthy(env.canonical) THEN 20 ELSE 0)
        social == 100 - (IF ~Truthy(env.ogTitle) THEN 15 ELSE 0)
                      - (IF ~Truthy(env.ogDescription) THEN 15 ELSE 0)
                      - (IF ~Truthy(env.ogImage) THEN 10 ELSE 0)
        unsorted ==
            (IF titleLength = 0
               THEN << [priority |-> "high", issue |-> <<"M","i","s","s","i","n","g"," ","t","i","t","l","e"," ","t","a","g">>, category |-> "on-page"] >>
             ELSE IF lenBad(titleLength, TitleMin, TitleMax)
               THEN << [priority |-> "high",
                        issue |-> <<"T","i","t","l","e"," ","l","e","n","g","t","h"," ","i","s"," ">> \o (IF titleLength < TitleMin THEN <<"t","o","o"," ","s","h","o","r","t">> ELSE <<"t","o","o"," ","l","o","n","g">>),
                        category |-> "on-page"] >>
             ELSE << >>)
         \o (IF descLength = 0
               THEN << [priority |-> "high", issue |-> <<"M","i","s","s","i","n","g"," ","m","e","t","a"," ","d","e","s","c","r","i","p","t","i","o","n">>, category |-> "on-page"] >>
             ELSE IF lenBad(descLength, DescMin, DescMax)
               THEN << [priority |-> "high",
                        issue |-> <<"D","e","s","c","r","i","p","t","i","o","n"," ","l","e","n","g","t","h"," ","i","s"," ">> \o (IF descLength < DescMin THEN <<"t","o","o"," ","s","h","o","r","t">> ELSE <<"t","o","o"," ","l","o","n","g">>),
                        category |-> "on-page"] >>
             ELSE << >>)
         \o (IF ~Truthy(env.h1)
               THEN << [priority |-> "high", issue |-> <<"M","i","s","s","i","n","g"," ","H","1"," ","t","a","g">>, category |-> "on-page"] >>
             ELSE << >>)
         \o (IF ~Truthy(env.canonical)
               THEN << [priority |-> "high", issue |-> <<"M","i","s","s","i","n","g"," ","c","a","n","o","n","i","c","a","l"," ","U","R","L">>, category |-> "technical"] >>
             ELSE << >>)
         \o (IF ~Truthy(env.ogTitle) \/ ~Truthy(env.ogDescription) \/ ~Truthy(env.ogImage)
               THEN << [priority |-> "medium", issue |-> <<"M","i","s","s","i","n","g"," ","O","p","e","n"," ","G","r","a","p","h"," ","t","a","g","s">>, category |-> "social"] >>
             ELSE << >>)
    IN  [categoryScores |-> [onPage |-> Max(0, onPage), technical |-> Max(0, technical),
                             content |-> Max(0, 100), social |-> Max(0, social)],
         \* the stable sort by priority rank: high, then medium, then low
         priorityIssues |-> Bind(unsorted, LAMBDA list :
               SelectSeq(list, LAMBDA p : p.priority = "high")
            \o SelectSeq(list, LAMBDA p : p.priority = "medium")
            \o SelectSeq(list, LAMBDA p : p.priority = "low"))]

\* analyzeSEO of src/lib/storage.ts: the deduction table (lines 353-416) is
\* the one of seo-optimizer.ts; the category block then reads h1, canonical,
\* ogTitle, ogDescription and ogImage as bare identifiers
analyzeSEOWithCategories(m) ==
    Bind(analyzeSEO(m), LAMBDA base :
    Bind(Unresolved(CategoryReads), LAMBDA bad :
        IF bad # << >>
        THEN Thrown("ReferenceError", Head(bad))
        ELSE Bind(CategoryBlock(m, Len(m.title), Len(m.description), m), LAMBDA cat :
                Returned([score |-> base.score, issues |-> base.issues,
                          suggestions |-> base.suggestions,
                          characterCounts |-> base.characterCounts,
                          categoryScores |-> cat.categoryScores,
                          priorityIssues |-> cat.priorityIssues]))))

----------------------------------------------------------------------------
(* Keyword analyzer: src/lib/storage.ts, lines 136-326                     *)

\* text.replace(/<[^>]*>/g, ' '): every "<" that has a ">" after it is
\* replaced, up to and including the first such ">", by one space
RECURSIVE StripTagsFrom(_, _)
StripTagsFrom(s, i) ==
    IF i > Len(s) THEN EmptyString
    ELSE IF s[i] = "<" /\ \E j \in (i + 1)..Len(s) : s[j] = ">"
    THEN LET close == CHOOSE j \in (i + 1)..Len(s) :
                          s[j] = ">" /\ \A k \in (i + 1)..(j - 1) : s[k] # ">"
         IN  <<" ">> \o StripTagsFrom(s, close + 1)
    ELSE LET stop == IF \E j \in i..Len(s) : s[j] = "<"
                     THEN CHOOSE j \in i..Len(s) : s[j] = "<" /\ \A k \in i..(j - 1) : s[k] # "<"
                     ELSE Len(s) + 1
             next == IF stop = i THEN i + 1 ELSE stop
         IN  SubSeq(s, i, next - 1) \o StripTagsFrom(s, next)

StripTags(s) == StripTagsFrom(s, 1)

\* text.replace(/[^\w\s]/g, ' ')
ReplaceNonWord(s) ==
    MapChars(s, LAMBDA c : IF IsWordChar(c) \/ IsSpace(c) THEN c ELSE " ")

\* s.split(/\s+/).filter(w => w.length > 0): the maximal runs of non-space,
\* from each position that starts a run to the position that ends it
Words(s) ==
    LET n == Len(s)
        starts == SelectSeq(Indices(n),
                      LAMBDA i : ~IsSpace(s[i]) /\ (i = 1 \/ IsSpace(s[i - 1])))
        ends == SelectSeq(Indices(n),
                    LAMBDA i : ~IsSpace(s[i]) /\ (i = n \/ IsSpace(s[i + 1])))
    IN  Materialize([k \in 1..Len(starts) |-> SubSeq(s, starts[k], ends[k])])

StopWords ==
    { <<"t","h","e">>, <<"a">>, <<"a","n">>, <<"a","n","d">>, <<"o","r">>, <<"b","u","t">>, <<"i","n">>, <<"o","n">>, <<"a","t">>, <<"t","o">>, <<"f","o","r">>,
      <<"o","f">>, <<"w","i","t","h">>, <<"b","y">>, <<"f","r","o","m">>, <<"a","s">>, <<"i","s">>, <<"w","a","s">>, <<"a","r","e">>, <<"w","e","r","e">>, <<"b","e","e","n">>,
      <<"b","e">>, <<"h","a","v","e">>, <<"h","a","s">>, <<"h","a","d">>, <<"d","o">>, <<"d","o","e","s">>, <<"d","i","d">>, <<"w","i","l","l">>, <<"w","o","u","l","d">>, <<"c","o","u","l","d">>,
      <<"s","h","o","u","l","d">>, <<"m","a","y">>, <<"m","i","g","h","t">>, <<"m","u","s","t">>, <<"c","a","n">>, <<"t","h","i","s">>, <<"t","h","a","t">>, <<"t","h","e","s","e">>, <<"t","h","o","s","e">>,
      <<"i">>, <<"y","o","u">>, <<"h","e">>, <<"s","h","e">>, <<"i","t">>, <<"w","e">>, <<"t","h","e","y">>, <<"w","h","a","t">>, <<"w","h","i","c","h">>, <<"w","h","o">>,
      <<"w","h","e","n">>, <<"w","h","e","r","e">>, <<"w","h","y">>, <<"h","o","w">>, <<"a","l","l">>, <<"e","a","c","h">>, <<"e","v","e","r","y">>, <<"b","o","t","h">>, <<"f","e","w">>,
      <<"m","o","r","e">>, <<"m","o","s","t">>, <<"o","t","h","e","r">>, <<"s","o","m","e">>, <<"s","u","c","h">>, <<"o","n","l","y">>, <<"o","w","n">>, <<"s","a","m","e">>, <<"t","h","a","n">>,
      <<"t","o","o">>, <<"v","e","r","y">>, <<"j","u","s","t">>, <<"n","o","w">> }

isStopWord(word) == toLowerCase(word) \in StopWords

\* the positions at which a word of ws occurs for the first time
FirstSeen(ws) ==
    SelectSeq(Indices(Len(ws)), LAMBDA i : \A j \in 1..(i - 1) : ws[j] # ws[i])

Occurrences(ws, w) == Cardinality({i \in DOMAIN ws : ws[i] = w})

\* the entries [word, count] of the frequency Map, in first-seen order
CountEntries(ws) ==
    LET first == FirstSeen(ws)
    IN  Materialize([k \in 1..Len(first) |->
                        [word |-> ws[first[k]], count |-> Occurrences(ws, ws[first[k]])]])

\* Array.prototype.sort((a, b) => b[1] - a[1]): stable, by count descending:
\* the entries of the highest count in their order, then the next count, ...
RECURSIVE SortFrom(_, _)
SortFrom(entries, c) ==
    IF c <= 0 THEN << >>
    ELSE SelectSeq(entries, LAMBDA e : e.count = c) \o SortFrom(entries, c - 1)

\* the entries left in Map order
SortByFirstSeen(entries) == entries

SortByFrequency(entries) ==
    LET top == IF entries = << >> THEN 0
               ELSE CHOOSE c \in {entries[i].count : i \in DOMAIN entries} :
                        \A i \in DOMAIN entries : entries[i].count <= c
    IN  SortFrom(entries, top)

\* .map(([word]) => word)
EntryWords(entries) == Materialize([k \in 1..Len(entries) |-> entries[k].word])

extractKeywords(text, minLength) ==
    IF ~Truthy(text) THEN << >>
    ELSE LET cleanText == trim(toLowerCase(ReplaceNonWord(StripTags(text))))
             words == SelectSeq(Words(cleanText),
                                LAMBDA w : Len(w) >= minLength /\ ~isStopWord(w))
         IN  EntryWords(SortByFrequency(CountEntries(words)))

\* a density is the quotient num / den, den > 0
Ratio(n, d) == [num |-> n, den |-> d]
RatioGT(r, k) == r.num > k * r.den
RatioLT2(r, kNum, kDen) == r.num * kDen < kNum * r.den

calculateDensity(text, keyword) ==
    IF ~Truthy(text) \/ ~Truthy(keyword) THEN Ratio(0, 1)
    ELSE Bind(ReplaceNonWord(toLowerCase(text)), LAMBDA cleanText :
         Bind(toLowerCase(keyword), LAMBDA cleanKeyword :
         Bind(Words(cleanText), LAMBDA words :
         Bind(Cardinality({i \in DOMAIN words : includes(words[i], cleanKeyword)}),
              LAMBDA keywordCount :
            IF Len(words) > 0 THEN Ratio(keywordCount * 100, Len(words)) ELSE Ratio(0, 1)))))

StuffingThreshold == 3

\* density >= 3
detectKeywordStuffingInclusive(text, keyword) ==
    ~RatioLT2(calculateDensity(text, keyword), StuffingThreshold, 1)

\* density > 3
detectKeywordStuffing(text, keyword) ==
    RatioGT(calculateDensity(text, keyword), StuffingThreshold)

analyzePlacement(m, keyword) ==
    Bind(toLowerCase(keyword), LAMBDA lowerKeyword :
        [inTitle |-> includes(toLowerCase(m.title), lowerKeyword),
         inH1 |-> includes(toLowerCase(m.h1), lowerKeyword),
         inDescription |-> includes(toLowerCase(m.description), lowerKeyword),
         inFirstParagraph |-> FALSE])

\* undefined (no keyword found) is the empty string: the code only tests
\* primaryKeyword for truthiness, and no extracted keyword is empty
Undefined == EmptyString

KeywordMinLength == 4
MaxSecondary == 5

CombinedText(m) == JoinTruthy(<<m.title, m.description, m.h1, m.ogTitle, m.ogDescription>>)

\* keywords.find(kw => title.includes(kw)) || keywords[0]
PrimaryKeyword(m, keywords) ==
    Bind(toLowerCase(m.title), LAMBDA lowerTitle :
    Bind({i \in DOMAIN keywords : includes(lowerTitle, toLowerCase(keywords[i]))},
         LAMBDA inTitle :
        IF inTitle # {} THEN keywords[CHOOSE i \in inTitle : \A j \in inTitle : i <= j]
        ELSE IF keywords # << >> THEN keywords[1]
        ELSE Undefined))

\* the suggestions of analyzeKeywords (lines 283-312)
KeywordSuggestions(primaryKeyword, keywordPlacement, keywordStuffing, primaryDensity) ==
    IF Truthy(primaryKeyword) THEN
        (IF ~keywordPlacement.inTitle
           THEN << <<"A","d","d"," ","p","r","i","m","a","r","y"," ","k","e","y","w","o","r","d"," ","\"">> \o primaryKeyword \o <<"\""," ","t","o"," ","t","h","e"," ","t","i","t","l","e"," ","t","a","g">> >>
           ELSE << >>)
     \o (IF ~keywordPlacement.inH1
           THEN << <<"I","n","c","l","u","d","e"," ","p","r","i","m","a","r","y"," ","k","e","y","w","o","r","d"," ","\"">> \o primaryKeyword \o <<"\""," ","i","n"," ","t","h","e"," ","H","1"," ","t","a","g">> >>
           ELSE << >>)
     \o (IF ~keywordPlacement.inDescription
           THEN << <<"I","n","c","l","u","d","e"," ","p","r","i","m","a","r","y"," ","k","e","y","w","o","r","d"," ","\"">> \o primaryKeyword \o <<"\""," ","i","n"," ","t","h","e"," ","m","e","t","a"," ","d","e","s","c","r","i","p","t","i","o","n">> >>
           ELSE << >>)
     \o (IF keywordStuffing
           THEN << <<"W","a","r","n","i","n","g",":"," ","K","e","y","w","o","r","d"," ","s","t","u","f","f","i","n","g"," ","d","e","t","e","c","t","e","d","."," ","R","e","d","u","c","e"," ","u","s","a","g","e"," ","o","f"," ","\"">> \o primaryKeyword \o <<"\"">> >>
           ELSE << >>)
     \o (IF RatioLT2(primaryDensity, 1, 2)
           THEN << <<"C","o","n","s","i","d","e","r"," ","i","n","c","r","e","a","s","i","n","g"," ","u","s","a","g","e"," ","o","f"," ","p","r","i","m","a","r","y"," ","k","e","y","w","o","r","d"," ","\"">> \o primaryKeyword \o <<"\""," ","(","c","u","r","r","e","n","t"," ","d","e","n","s","i","t","y"," ","i","s"," ","l","o","w",")">> >>
           ELSE << >>)
    ELSE << <<"N","o"," ","c","l","e","a","r"," ","p","r","i","m","a","r","y"," ","k","e","y","w","o","r","d"," ","i","d","e","n","t","i","f","i","e","d","."," ","C","o","n","s","i","d","e","r"," ","a","d","d","i","n","g"," ","a"," ","f","o","c","u","s"," ","k","e","y","w","o","r","d"," ","t","o"," ","y","o","u","r"," ","c","o","n","t","e","n","t",".">> >>

analyzeKeywords(m) ==
    Bind(CombinedText(m), LAMBDA combinedText :
    Bind(extractKeywords(combinedText, KeywordMinLength), LAMBDA keywords :
    Bind(PrimaryKeyword(m, keywords), LAMBDA primaryKeyword :
    Bind(SelectSeq(keywords, LAMBDA kw : kw # primaryKeyword), LAMBDA others :
    Bind(SubSeq(others, 1, Min(MaxSecondary, Len(others))), LAMBDA secondaryKeywords :
    Bind(calculateDensity(combinedText, primaryKeyword), LAMBDA primaryDensity :
    Bind(IF Truthy(primaryKeyword) THEN detectKeywordStuffing(combinedText, primaryKeyword)
         ELSE FALSE, LAMBDA keywordStuffing :
    Bind(IF Truthy(primaryKeyword) THEN analyzePlacement(m, primaryKeyword)
         ELSE [inTitle |-> FALSE, inH1 |-> FALSE, inDescription |-> FALSE,
               inFirstParagraph |-> FALSE], LAMBDA keywordPlacement :
        [primaryKeyword |-> primaryKeyword,
         secondaryKeywords |-> secondaryKeywords,
         keywordDensity |->
            (IF Truthy(primaryKeyword)
               THEN <<[keyword |-> primaryKeyword, density |-> primaryDensity]>> ELSE << >>)
            \o [i \in DOMAIN secondaryKeywords |->
                   [keyword |-> secondaryKeywords[i],
                    density |-> calculateDensity(combinedText, secondaryKeywords[i])]],
         keywordPlacement |-> keywordPlacement,
         keywordStuffing |-> keywordStuffing,
         suggestions |-> KeywordSuggestions(primaryKeyword, keywordPlacement,
                                            keywordStuffing, primaryDensity)]))))))))

----------------------------------------------------------------------------
(* Content-quality analyzer: src/lib/content-analyzer.ts                   *)

\* a JavaScript number: NaN, or the exact quotient num / den with den > 0
NaN == [nan |-> TRUE, num |-> 0, den |-> 1]
Num(n, d) == [nan |-> FALSE, num |-> n, den |-> d]
NumGE(x, k) == ~x.nan /\ x.num >= k * x.den
NumLT(x, k) == ~x.nan /\ x.num < k * x.den

\* text.match(re)?.length for a character class re+: the maximal runs
CountRuns(s, InClass(_)) ==
    Cardinality({i \in 1..Len(s) : InClass(s[i]) /\ (i = 1 \/ ~InClass(s[i - 1]))})

IsSentenceEnd(c) == c \in {".", "!", "?"}
IsVowel(c) == c \in {"a", "e", "i", "o", "u", "y"}

\* the syllables one word adds (lines 38-44)
WordSyllables(word) ==
    Bind(toLowerCase(word), LAMBDA lowerWord :
    Bind(CountRuns(lowerWord, IsVowel), LAMBDA vowelGroups :
        IF lowerWord[Len(lowerWord)] = "e" /\ vowelGroups > 1
        THEN vowelGroups - 1 ELSE vowelGroups))

SumSyllables(words) == Sum([k \in 1..Len(words) |-> WordSyllables(words[k])])

\* 206.835 - 1.015 * (words / sentences) - 84.6 * (syllables / words), as the
\* exact quotient over 200 * sentences * words; syllables / words is 0 / 0,
\* that is NaN, when there is no word
FleschScore(wordCount, sentences, syllables) ==
    IF wordCount = 0 THEN NaN
    ELSE Num(41367 * sentences * wordCount - 203 * wordCount * wordCount
               - 16920 * syllables * sentences,
             200 * sentences * wordCount)

ReadabilityLevel(score) ==
    IF NumGE(score, 90) THEN "Very Easy"
    ELSE IF NumGE(score, 80) THEN "Easy"
    ELSE IF NumGE(score, 70) THEN "Fairly Easy"
    ELSE IF NumGE(score, 60) THEN "Standard"
    ELSE IF NumGE(score, 50) THEN "Fairly Difficult"
    ELSE IF NumGE(score, 30) THEN "Difficult"
    ELSE "Very Difficult"

\* Math.max(0, Math.min(100, score)): NaN stays NaN
Clamp0to100(score) ==
    IF score.nan THEN NaN
    ELSE IF score.num > 100 * score.den THEN Num(100, 1)
    ELSE IF score.num < 0 THEN Num(0, 1)
    ELSE score

calculateReadability(text) ==
    IF ~Truthy(text) \/ Len(trim(text)) = 0
    THEN [score |-> Num(0, 1), level |-> "No content"]
    ELSE Bind(StripTags(text), LAMBDA cleanText :
         Bind(CountRuns(cleanText, IsSentenceEnd), LAMBDA runs :
         Bind(IF runs = 0 THEN 1 ELSE runs, LAMBDA sentences :
         Bind(Words(cleanText), LAMBDA words :
         Bind(FleschScore(Len(words), sentences, SumSyllables(words)), LAMBDA score :
            [score |-> Clamp0to100(score), level |-> ReadabilityLevel(score)])))))

countWords(m) == Len(Words(CombinedText(m)))

WordCountGood == 300
WordCountFair == 150

analyzeContentQuality(m) ==
    Bind(JoinTruthy(<<m.title, m.description, m.h1>>), LAMBDA combinedText :
    Bind(countWords(m), LAMBDA wordCount :
    Bind(calculateReadability(combinedText), LAMBDA readability :
    Bind(IF Truthy(m.h1) THEN 1 ELSE 0, LAMBDA h1Count :
    Bind(wordCount < WordCountGood, LAMBDA wordIssue :
    Bind(NumLT(readability.score, 30), LAMBDA veryHard :
    Bind(~veryHard /\ NumLT(readability.score, 50), LAMBDA hard :
        [wordCount |-> wordCount,
         readabilityScore |-> readability.score,
         readabilityLevel |-> readability.level,
         h1Count |-> h1Count, h2Count |-> 0, h3Count |-> 0,
         headerHierarchyValid |-> (h1Count = 1),
         imageCount |-> 0, imagesWithAlt |-> 0,
         altTextCompleteness |-> 100,
         issues |->
            (IF wordIssue THEN << <<"L","o","w"," ","w","o","r","d"," ","c","o","u","n","t"," ","(","l","e","s","s"," ","t","h","a","n"," ","3","0","0"," ","w","o","r","d","s"," ","r","e","c","o","m","m","e","n","d","e","d",")">> >> ELSE << >>)
         \o (IF veryHard THEN << <<"C","o","n","t","e","n","t"," ","i","s"," ","v","e","r","y"," ","d","i","f","f","i","c","u","l","t"," ","t","o"," ","r","e","a","d">> >>
             ELSE IF hard THEN << <<"C","o","n","t","e","n","t"," ","i","s"," ","d","i","f","f","i","c","u","l","t"," ","t","o"," ","r","e","a","d">> >> ELSE << >>)
         \o (IF h1Count = 0 THEN << <<"M","i","s","s","i","n","g"," ","H","1"," ","t","a","g">> >>
             ELSE IF h1Count > 1 THEN << <<"M","u","l","t","i","p","l","e"," ","H","1"," ","t","a","g","s"," ","f","o","u","n","d"," ","(","s","h","o","u","l","d"," ","b","e"," ","o","n","l","y"," ","o","n","e",")">> >> ELSE << >>),
         suggestions |->
            (IF wordIssue THEN << <<"C","o","n","s","i","d","e","r"," ","a","d","d","i","n","g"," ","m","o","r","e"," ","c","o","n","t","e","n","t"," ","t","o"," ","i","m","p","r","o","v","e"," ","S","E","O"," ","a","n","d"," ","u","s","e","r"," ","e","n","g","a","g","e","m","e","n","t">> >> ELSE << >>)
         \o (IF veryHard THEN << <<"S","i","m","p","l","i","f","y"," ","l","a","n","g","u","a","g","e"," ","a","n","d"," ","s","e","n","t","e","n","c","e"," ","s","t","r","u","c","t","u","r","e"," ","f","o","r"," ","b","e","t","t","e","r"," ","r","e","a","d","a","b","i","l","i","t","y">> >>
             ELSE IF hard THEN << <<"C","o","n","s","i","d","e","r"," ","s","i","m","p","l","i","f","y","i","n","g"," ","l","a","n","g","u","a","g","e"," ","f","o","r"," ","b","r","o","a","d","e","r"," ","a","u","d","i","e","n","c","e">> >> ELSE << >>)
         \o (IF h1Count = 0 THEN << <<"A","d","d"," ","a","n"," ","H","1"," ","t","a","g"," ","w","i","t","h"," ","y","o","u","r"," ","p","r","i","m","a","r","y"," ","k","e","y","w","o","r","d">> >>
             ELSE IF h1Count > 1 THEN << <<"U","s","e"," ","o","n","l","y"," ","o","n","e"," ","H","1"," ","t","a","g"," ","p","e","r"," ","p","a","g","e",","," ","u","s","e"," ","H","2","-","H","6"," ","f","o","r"," ","s","u","b","h","e","a","d","i","n","g","s">> >> ELSE << >>)])))))))

----------------------------------------------------------------------------
(* Technical analyzer: src/unnamed/part_008, lines 319-564                 *)

StartsWith(s, p) == Len(s) >= Len(p) /\ SubSeq(s, 1, Len(p)) = p

\* the first position of s whose character is in the class, Len(s) + 1 if none
FirstIndex(s, InClass(_)) ==
    IF \E i \in DOMAIN s : InClass(s[i])
    THEN CHOOSE i \in DOMAIN s : InClass(s[i]) /\ \A k \in 1..(i - 1) : ~InClass(s[k])
    ELSE Len(s) + 1

\* new URL(url) for the strings this model feeds it: outer blanks are
\* stripped and the scheme is matched whatever its case; an http(s) URL with
\* a non-empty host parses, and its pathname runs from the first "/" after
\* the host to the first "?" or "#" ("/" when empty); a string with no scheme
\* makes the constructor throw
ParseURL(url) ==
    Bind(trim(url), LAMBDA stripped :
    Bind(IF StartsWith(toLowerCase(substring0(stripped, 8)), <<"h","t","t","p","s",":","/","/">>) THEN 8
         ELSE IF StartsWith(toLowerCase(substring0(stripped, 7)), <<"h","t","t","p",":","/","/">>) THEN 7
         ELSE 0, LAMBDA scheme :
    Bind(SubSeq(stripped, scheme + 1, Len(stripped)), LAMBDA rest :
    Bind(FirstIndex(rest, LAMBDA c : c \in {"/", "?", "#"}) - 1, LAMBDA hostEnd :
    Bind(SubSeq(rest, hostEnd + 1, Len(rest)), LAMBDA after :
    Bind(FirstIndex(after, LAMBDA c : c \in {"?", "#"}) - 1, LAMBDA pathEnd :
    Bind(SubSeq(after, 1, pathEnd), LAMBDA path :
        IF scheme = 0 \/ hostEnd = 0 THEN [ok |-> FALSE, pathname |-> EmptyString]
        ELSE [ok |-> TRUE, pathname |-> IF path = EmptyString THEN <<"/">> ELSE path])))))))

\* path.split('/'): the pieces between one "/" (or the start) and the next
\* "/" (or the end)
SplitSlash(s) ==
    Bind(<<0>> \o SelectSeq(Indices(Len(s)), LAMBDA i : s[i] = "/") \o <<Len(s) + 1>>,
         LAMBDA cuts :
        Materialize([k \in 1..(Len(cuts) - 1) |-> SubSeq(s, cuts[k] + 1, cuts[k + 1] - 1)]))

\* re.test(s) for a character class re{n,}: a run of at least n
HasRun(s, InClass(_), n) ==
    \E i \in 1..(Len(s) - n + 1) : \A k \in 0..(n - 1) : InClass(s[i + k])

IsLowerLetter(c) == c \in LowerSet
IsDigit(c) == c \in DigitSet
UrlSafeChars == LowerSet \cup UpperSet \cup DigitSet \cup {"-", "_", "/"}
IsUrlSafe(c) == c \in UrlSafeChars

\* segment.length > 3 && /[a-z]{3,}/.test(segment.toLowerCase())
KeywordSegment(segment) ==
    Len(segment) > 3 /\ HasRun(toLowerCase(segment), IsLowerLetter, 3)

\* the deductions of analyzeURLStructure in the order the code runs them
URLChecks(fullUrlLength, path, hasKeywords, hasUnderscores, longNumber, special) ==
    << IF fullUrlLength > 100
         THEN [hit |-> TRUE, points |-> 20,
               issue |-> <<"U","R","L"," ","i","s"," ","t","o","o"," ","l","o","n","g"," ","(">> \o NumberToString(fullUrlLength) \o <<" ","c","h","a","r","s",","," ","r","e","c","o","m","m","e","n","d","e","d",":"," ","<"," ","1","0","0",")">>]
       ELSE IF fullUrlLength > 75
         THEN [hit |-> TRUE, points |-> 10,
               issue |-> <<"U","R","L"," ","i","s"," ","g","e","t","t","i","n","g"," ","l","o","n","g"," ","(">> \o NumberToString(fullUrlLength) \o <<" ","c","h","a","r","s",")">>]
       ELSE [hit |-> FALSE, points |-> 0, issue |-> EmptyString],
       [hit |-> Len(path) > 60, points |-> 15,
        issue |-> <<"P","a","t","h"," ","i","s"," ","t","o","o"," ","l","o","n","g"," ","(">> \o NumberToString(Len(path)) \o <<" ","c","h","a","r","s",")">>],
       [hit |-> ~hasKeywords /\ path # <<"/">>, points |-> 15,
        issue |-> <<"U","R","L"," ","p","a","t","h"," ","l","a","c","k","s"," ","d","e","s","c","r","i","p","t","i","v","e"," ","k","e","y","w","o","r","d","s">>],
       [hit |-> hasUnderscores, points |-> 10,
        issue |-> <<"U","R","L"," ","c","o","n","t","a","i","n","s"," ","u","n","d","e","r","s","c","o","r","e","s"," ","(","u","s","e"," ","h","y","p","h","e","n","s"," ","i","n","s","t","e","a","d",")">>],
       [hit |-> longNumber, points |-> 5,
        issue |-> <<"U","R","L"," ","c","o","n","t","a","i","n","s"," ","l","o","n","g"," ","n","u","m","b","e","r"," ","s","e","q","u","e","n","c","e","s"," ","(","m","a","y"," ","i","n","d","i","c","a","t","e"," ","d","y","n","a","m","i","c"," ","U","R","L","s",")">>],
       [hit |-> special, points |-> 10,
        issue |-> <<"U","R","L"," ","c","o","n","t","a","i","n","s"," ","s","p","e","c","i","a","l"," ","c","h","a","r","a","c","t","e","r","s"," ","(","u","s","e"," ","o","n","l","y"," ","a","l","p","h","a","n","u","m","e","r","i","c",","," ","h","y","p","h","e","n","s",","," ","a","n","d"," ","s","l","a","s","h","e","s",")">>] >>

\* every url taken as well formed and faultless
analyzeURLStructureLenient(url) ==
    [score |-> 100, length |-> Len(url), hasKeywords |-> FALSE, hasHyphens |-> FALSE,
     hasNumbers |-> FALSE, issues |-> << >>]

analyzeURLStructure(url) ==
    Bind(ParseURL(url), LAMBDA parsed :
        IF ~parsed.ok
        THEN [score |-> 0, length |-> Len(url), hasKeywords |-> FALSE, hasHyphens |-> FALSE,
              hasNumbers |-> FALSE, issues |-> << <<"I","n","v","a","l","i","d"," ","U","R","L"," ","f","o","r","m","a","t">> >>]
        ELSE
    Bind(parsed.pathname, LAMBDA path :
    Bind(SplitSlash(path), LAMBDA segments :
    Bind(\E i \in DOMAIN segments : KeywordSegment(segments[i]), LAMBDA hasKeywords :
    Bind(\E i \in DOMAIN path : path[i] = "-", LAMBDA hasHyphens :
    Bind(\E i \in DOMAIN path : path[i] = "_", LAMBDA hasUnderscores :
    Bind(\E i \in DOMAIN path : IsDigit(path[i]), LAMBDA hasNumbers :
    Bind(hasNumbers /\ HasRun(path, IsDigit, 4), LAMBDA longNumber :
    Bind(\E i \in DOMAIN path : ~IsUrlSafe(path[i]), LAMBDA special :
    Bind(SelectSeq(URLChecks(Len(url), path, hasKeywords, hasUnderscores, longNumber, special),
                   LAMBDA c : c.hit), LAMBDA hits :
        [score |-> Max(0, 100 - Sum([k \in 1..Len(hits) |-> hits[k].points])),
         length |-> Len(url),
         hasKeywords |-> hasKeywords, hasHyphens |-> hasHyphens,
         hasNumbers |-> hasNumbers,
         issues |-> Materialize([i \in 1..Len(hits) |-> hits[i].issue])]))))))))))

\* s.replace(/\/$/, '')
DropTrailingSlash(s) ==
    IF Len(s) > 0 /\ s[Len(s)] = "/" THEN SubSeq(s, 1, Len(s) - 1) ELSE s

analyzeCanonical(m) ==
    IF ~(Truthy(m.canonical) /\ Len(trim(m.canonical)) > 0)
    THEN [present |-> FALSE, valid |-> FALSE, selfReferencing |-> FALSE,
          issues |-> << <<"M","i","s","s","i","n","g"," ","c","a","n","o","n","i","c","a","l"," ","U","R","L">> >>]
    ELSE
    Bind(ParseURL(m.canonical).ok, LAMBDA valid :
        [present |-> TRUE, valid |-> valid,
         selfReferencing |-> (m.canonical = m.url
                              \/ DropTrailingSlash(m.canonical) = DropTrailingSlash(m.url)),
         issues |-> IF valid THEN << >> ELSE << <<"C","a","n","o","n","i","c","a","l"," ","U","R","L"," ","i","s"," ","n","o","t"," ","a"," ","v","a","l","i","d"," ","U","R","L">> >>])

\* a robots meta tag reported as found
analyzeRobotsMetaPresent(m) ==
    [present |-> TRUE, noindex |-> FALSE, nofollow |-> FALSE, issues |-> << >>]

analyzeRobotsMeta(m) ==
    [present |-> FALSE, noindex |-> FALSE, nofollow |-> FALSE,
     issues |-> << <<"U","n","a","b","l","e"," ","t","o"," ","d","e","t","e","c","t"," ","r","o","b","o","t","s"," ","m","e","t","a"," ","t","a","g"," ","(","r","e","q","u","i","r","e","s"," ","p","a","g","e"," ","H","T","M","L",")">> >>]

\* schema markup reported as found
analyzeSchemaMarkupDetected(m) == [detected |-> TRUE, issues |-> << >>]

analyzeSchemaMarkup(m) ==
    [detected |-> FALSE,
     issues |-> << <<"N","o"," ","s","c","h","e","m","a"," ","m","a","r","k","u","p"," ","d","e","t","e","c","t","e","d"," ","(","a","d","d"," ","J","S","O","N","-","L","D"," ","f","o","r"," ","b","e","t","t","e","r"," ","r","i","c","h"," ","s","n","i","p","p","e","t","s",")">> >>]

analyzeMobileViewport(m) ==
    [present |-> FALSE,
     issues |-> << <<"M","o","b","i","l","e"," ","v","i","e","w","p","o","r","t"," ","m","e","t","a"," ","t","a","g"," ","n","o","t"," ","d","e","t","e","c","t","e","d"," ","(","r","e","q","u","i","r","e","d"," ","f","o","r"," ","m","o","b","i","l","e"," ","S","E","O",")">> >>]

\* Math.round of the non-negative quotient n / d
RoundDiv(n, d) == (2 * n + d) \div (2 * d)

analyzeTechnicalSEO(m) ==
    Bind(analyzeURLStructure(m.url), LAMBDA urlStructure :
    Bind(analyzeCanonical(m), LAMBDA canonicalUrl :
    Bind(analyzeRobotsMeta(m), LAMBDA robotsMeta :
    Bind(analyzeSchemaMarkup(m), LAMBDA schemaMarkup :
    Bind(analyzeMobileViewport(m), LAMBDA mobileViewport :
    Bind(<< urlStructure.score,
            IF canonicalUrl.present THEN 100 ELSE 0,
            IF robotsMeta.present THEN 100 ELSE 50,
            IF schemaMarkup.detected THEN 100 ELSE 0,
            IF mobileViewport.present THEN 100 ELSE 0 >>, LAMBDA scores :
        [urlStructure |-> urlStructure, canonicalUrl |-> canonicalUrl,
         robotsMeta |-> robotsMeta, schemaMarkup |-> schemaMarkup,
         mobileViewport |-> mobileViewport,
         overallScore |-> RoundDiv(Sum(scores), Len(scores)),
         suggestions |->
            (IF ~canonicalUrl.present
               THEN << <<"A","d","d"," ","a"," ","c","a","n","o","n","i","c","a","l"," ","U","R","L"," ","t","o"," ","p","r","e","v","e","n","t"," ","d","u","p","l","i","c","a","t","e"," ","c","o","n","t","e","n","t"," ","i","s","s","u","e","s">> >> ELSE << >>)
         \o (IF Len(urlStructure.issues) > 0
               THEN << <<"O","p","t","i","m","i","z","e"," ","U","R","L"," ","s","t","r","u","c","t","u","r","e",":"," ">> \o urlStructure.issues[1] >> ELSE << >>)
         \o (IF ~schemaMarkup.detected
               THEN << <<"A","d","d"," ","s","t","r","u","c","t","u","r","e","d"," ","d","a","t","a"," ","(","J","S","O","N","-","L","D",")"," ","f","o","r"," ","b","e","t","t","e","r"," ","s","e","a","r","c","h"," ","r","e","s","u","l","t"," ","a","p","p","e","a","r","a","n","c","e">> >> ELSE << >>)
         \o (IF ~mobileViewport.present
               THEN << <<"A","d","d"," ","m","o","b","i","l","e"," ","v","i","e","w","p","o","r","t"," ","m","e","t","a"," ","t","a","g"," ","f","o","r"," ","m","o","b","i","l","e","-","f","r","i","e","n","d","l","y"," ","S","E","O">> >> ELSE << >>)]))))))

----------------------------------------------------------------------------
(* Checklist generator: src/unnamed/part_006                               *)

Item(id, category, priority, title, description, status, action) ==
    [id |-> id, category |-> category, priority |-> priority, title |-> title,
     description |-> description, status |-> status, action |-> action]

\* the items pushed by generateSEOChecklist, in push order
ChecklistItems(m, seoAnalysis, keywordAnalysis, contentQuality, technicalSEO) ==
    LET titleLen == seoAnalysis.characterCounts.title.current
        descLen == seoAnalysis.characterCounts.description.current
        hasPrimary == Truthy(keywordAnalysis.primaryKeyword)
        placement == keywordAnalysis.keywordPlacement
        quoted == <<"\"">> \o keywordAnalysis.primaryKeyword \o <<"\"">>
    IN  << Item("title-present", "on-page", "high",
                <<"T","i","t","l","e"," ","T","a","g"," ","P","r","e","s","e","n","t">>, <<"P","a","g","e"," ","h","a","s"," ","a"," ","t","i","t","l","e"," ","t","a","g">>,
                IF Truthy(m.title) THEN "pass" ELSE "fail",
                IF Truthy(m.title) THEN <<"T","i","t","l","e"," ","t","a","g"," ","i","s"," ","p","r","e","s","e","n","t">> ELSE <<"A","d","d"," ","a"," ","t","i","t","l","e"," ","t","a","g"," ","t","o"," ","y","o","u","r"," ","p","a","g","e">>),
           Item("title-length", "on-page", "high",
                <<"T","i","t","l","e"," ","L","e","n","g","t","h"," ","O","p","t","i","m","a","l">>, <<"T","i","t","l","e"," ","i","s"," ","b","e","t","w","e","e","n"," ","3","0","-","6","0"," ","c","h","a","r","a","c","t","e","r","s">>,
                IF titleLen >= 30 /\ titleLen <= 60 THEN "pass"
                ELSE IF titleLen = 0 THEN "fail" ELSE "warning",
                IF titleLen = 0 THEN <<"A","d","d"," ","a"," ","t","i","t","l","e"," ","t","a","g">>
                ELSE IF titleLen < 30
                  THEN <<"E","x","p","a","n","d"," ","t","i","t","l","e"," ","t","o"," ","3","0","-","6","0"," ","c","h","a","r","a","c","t","e","r","s"," ","(","c","u","r","r","e","n","t","l","y"," ">> \o NumberToString(titleLen) \o <<")">>
                ELSE <<"S","h","o","r","t","e","n"," ","t","i","t","l","e"," ","t","o"," ","6","0"," ","c","h","a","r","a","c","t","e","r","s"," ","o","r"," ","l","e","s","s"," ","(","c","u","r","r","e","n","t","l","y"," ">> \o NumberToString(titleLen) \o <<")">>),
           Item("meta-description", "on-page", "high",
                <<"M","e","t","a"," ","D","e","s","c","r","i","p","t","i","o","n"," ","P","r","e","s","e","n","t">>, <<"P","a","g","e"," ","h","a","s"," ","a"," ","m","e","t","a"," ","d","e","s","c","r","i","p","t","i","o","n">>,
                IF Truthy(m.description) THEN "pass" ELSE "fail",
                IF Truthy(m.description) THEN <<"M","e","t","a"," ","d","e","s","c","r","i","p","t","i","o","n"," ","i","s"," ","p","r","e","s","e","n","t">>
                ELSE <<"A","d","d"," ","a"," ","m","e","t","a"," ","d","e","s","c","r","i","p","t","i","o","n"," ","t","a","g">>),
           Item("meta-description-length", "on-page", "high",
                <<"M","e","t","a"," ","D","e","s","c","r","i","p","t","i","o","n"," ","L","e","n","g","t","h"," ","O","p","t","i","m","a","l">>, <<"D","e","s","c","r","i","p","t","i","o","n"," ","i","s"," ","b","e","t","w","e","e","n"," ","1","2","0","-","1","6","0"," ","c","h","a","r","a","c","t","e","r","s">>,
                IF descLen >= 120 /\ descLen <= 160 THEN "pass"
                ELSE IF descLen = 0 THEN "fail" ELSE "warning",
                IF descLen = 0 THEN <<"A","d","d"," ","a"," ","m","e","t","a"," ","d","e","s","c","r","i","p","t","i","o","n">>
                ELSE IF descLen < 120
                  THEN <<"E","x","p","a","n","d"," ","d","e","s","c","r","i","p","t","i","o","n"," ","t","o"," ","1","2","0","-","1","6","0"," ","c","h","a","r","a","c","t","e","r","s"," ","(","c","u","r","r","e","n","t","l","y"," ">> \o NumberToString(descLen) \o <<")">>
                ELSE <<"S","h","o","r","t","e","n"," ","d","e","s","c","r","i","p","t","i","o","n"," ","t","o"," ","1","6","0"," ","c","h","a","r","a","c","t","e","r","s"," ","o","r"," ","l","e","s","s"," ","(","c","u","r","r","e","n","t","l","y"," ">> \o NumberToString(descLen) \o <<")">>),
           Item("h1-present", "on-page", "high",
                <<"H","1"," ","T","a","g"," ","P","r","e","s","e","n","t">>, <<"P","a","g","e"," ","h","a","s"," ","e","x","a","c","t","l","y"," ","o","n","e"," ","H","1"," ","t","a","g">>,
                IF contentQuality.h1Count = 1 THEN "pass"
                ELSE IF contentQuality.h1Count = 0 THEN "fail" ELSE "warning",
                IF contentQuality.h1Count = 0 THEN <<"A","d","d"," ","a","n"," ","H","1"," ","t","a","g"," ","w","i","t","h"," ","y","o","u","r"," ","p","r","i","m","a","r","y"," ","k","e","y","w","o","r","d">>
                ELSE IF contentQuality.h1Count > 1
                  THEN <<"U","s","e"," ","o","n","l","y"," ","o","n","e"," ","H","1"," ","t","a","g"," ","(","f","o","u","n","d"," ">> \o NumberToString(contentQuality.h1Count) \o <<")">>
                ELSE <<"H","1"," ","t","a","g"," ","i","s"," ","p","r","e","s","e","n","t">>),
           Item("keyword-in-title", "on-page", "high",
                <<"P","r","i","m","a","r","y"," ","K","e","y","w","o","r","d"," ","i","n"," ","T","i","t","l","e">>, <<"P","r","i","m","a","r","y"," ","k","e","y","w","o","r","d"," ","a","p","p","e","a","r","s"," ","i","n"," ","t","i","t","l","e"," ","t","a","g">>,
                IF hasPrimary /\ placement.inTitle THEN "pass" ELSE "warning",
                IF hasPrimary
                  THEN IF placement.inTitle THEN <<"P","r","i","m","a","r","y"," ","k","e","y","w","o","r","d"," ","i","s"," ","i","n"," ","t","i","t","l","e">>
                       ELSE <<"A","d","d"," ","p","r","i","m","a","r","y"," ","k","e","y","w","o","r","d"," ">> \o quoted \o <<" ","t","o"," ","t","i","t","l","e">>
                ELSE <<"I","d","e","n","t","i","f","y"," ","a","n","d"," ","a","d","d"," ","a"," ","p","r","i","m","a","r","y"," ","k","e","y","w","o","r","d"," ","t","o"," ","y","o","u","r"," ","t","i","t","l","e">>),
           Item("keyword-in-h1", "on-page", "medium",
                <<"P","r","i","m","a","r","y"," ","K","e","y","w","o","r","d"," ","i","n"," ","H","1">>, <<"P","r","i","m","a","r","y"," ","k","e","y","w","o","r","d"," ","a","p","p","e","a","r","s"," ","i","n"," ","H","1"," ","t","a","g">>,
                IF hasPrimary /\ placement.inH1 THEN "pass" ELSE "warning",
                IF hasPrimary
                  THEN IF placement.inH1 THEN <<"P","r","i","m","a","r","y"," ","k","e","y","w","o","r","d"," ","i","s"," ","i","n"," ","H","1">>
                       ELSE <<"A","d","d"," ","p","r","i","m","a","r","y"," ","k","e","y","w","o","r","d"," ">> \o quoted \o <<" ","t","o"," ","H","1">>
                ELSE <<"I","d","e","n","t","i","f","y"," ","a","n","d"," ","a","d","d"," ","a"," ","p","r","i","m","a","r","y"," ","k","e","y","w","o","r","d"," ","t","o"," ","y","o","u","r"," ","H","1">>),
           Item("keyword-in-description", "on-page", "medium",
                <<"P","r","i","m","a","r","y"," ","K","e","y","w","o","r","d"," ","i","n"," ","D","e","s","c","r","i","p","t","i","o","n">>, <<"P","r","i","m","a","r","y"," ","k","e","y","w","o","r","d"," ","a","p","p","e","a","r","s"," ","i","n"," ","m","e","t","a"," ","d","e","s","c","r","i","p","t","i","o","n">>,
                IF hasPrimary /\ placement.inDescription THEN "pass" ELSE "warning",
                IF hasPrimary
                  THEN IF placement.inDescription THEN <<"P","r","i","m","a","r","y"," ","k","e","y","w","o","r","d"," ","i","s"," ","i","n"," ","d","e","s","c","r","i","p","t","i","o","n">>
                       ELSE <<"A","d","d"," ","p","r","i","m","a","r","y"," ","k","e","y","w","o","r","d"," ">> \o quoted \o <<" ","t","o"," ","d","e","s","c","r","i","p","t","i","o","n">>
                ELSE <<"I","d","e","n","t","i","f","y"," ","a","n","d"," ","a","d","d"," ","a"," ","p","r","i","m","a","r","y"," ","k","e","y","w","o","r","d"," ","t","o"," ","y","o","u","r"," ","d","e","s","c","r","i","p","t","i","o","n">>),
           Item("keyword-stuffing", "on-page", "high",
                <<"N","o"," ","K","e","y","w","o","r","d"," ","S","t","u","f","f","i","n","g">>, <<"K","e","y","w","o","r","d"," ","d","e","n","s","i","t","y"," ","i","s"," ","w","i","t","h","i","n"," ","a","c","c","e","p","t","a","b","l","e"," ","r","a","n","g","e">>,
                IF keywordAnalysis.keywordStuffing THEN "fail" ELSE "pass",
                IF keywordAnalysis.keywordStuffing
                  THEN <<"R","e","d","u","c","e"," ","k","e","y","w","o","r","d"," ","u","s","a","g","e"," ","t","o"," ","a","v","o","i","d"," ","k","e","y","w","o","r","d"," ","s","t","u","f","f","i","n","g"," ","p","e","n","a","l","t","y">>
                ELSE <<"K","e","y","w","o","r","d"," ","d","e","n","s","i","t","y"," ","i","s"," ","o","p","t","i","m","a","l">>),
           Item("canonical-url", "technical", "high",
                <<"C","a","n","o","n","i","c","a","l"," ","U","R","L"," ","P","r","e","s","e","n","t">>, <<"P","a","g","e"," ","h","a","s"," ","a"," ","c","a","n","o","n","i","c","a","l"," ","U","R","L">>,
                IF technicalSEO.canonicalUrl.present THEN "pass" ELSE "fail",
                IF technicalSEO.canonicalUrl.present THEN <<"C","a","n","o","n","i","c","a","l"," ","U","R","L"," ","i","s"," ","p","r","e","s","e","n","t">>
                ELSE <<"A","d","d"," ","a"," ","c","a","n","o","n","i","c","a","l"," ","U","R","L"," ","t","o"," ","p","r","e","v","e","n","t"," ","d","u","p","l","i","c","a","t","e"," ","c","o","n","t","e","n","t"," ","i","s","s","u","e","s">>),
           Item("url-structure", "technical", "medium",
                <<"U","R","L"," ","S","t","r","u","c","t","u","r","e"," ","O","p","t","i","m","i","z","e","d">>, <<"U","R","L"," ","i","s"," ","c","l","e","a","n"," ","a","n","d"," ","k","e","y","w","o","r","d","-","r","i","c","h">>,
                IF technicalSEO.urlStructure.score >= 80 THEN "pass"
                ELSE IF technicalSEO.urlStructure.score >= 60 THEN "warning" ELSE "fail",
                IF Len(technicalSEO.urlStructure.issues) > 0
                  THEN technicalSEO.urlStructure.issues[1]
                ELSE <<"U","R","L"," ","s","t","r","u","c","t","u","r","e"," ","i","s"," ","o","p","t","i","m","i","z","e","d">>),
           Item("schema-markup", "technical", "medium",
                <<"S","c","h","e","m","a"," ","M","a","r","k","u","p"," ","P","r","e","s","e","n","t">>, <<"P","a","g","e"," ","h","a","s"," ","s","t","r","u","c","t","u","r","e","d"," ","d","a","t","a"," ","m","a","r","k","u","p">>,
                IF technicalSEO.schemaMarkup.detected THEN "pass" ELSE "warning",
                IF technicalSEO.schemaMarkup.detected THEN <<"S","c","h","e","m","a"," ","m","a","r","k","u","p"," ","i","s"," ","p","r","e","s","e","n","t">>
                ELSE <<"A","d","d"," ","J","S","O","N","-","L","D"," ","s","t","r","u","c","t","u","r","e","d"," ","d","a","t","a"," ","f","o","r"," ","b","e","t","t","e","r"," ","r","i","c","h"," ","s","n","i","p","p","e","t","s">>),
           Item("og-title", "social", "medium",
                <<"O","p","e","n"," ","G","r","a","p","h"," ","T","i","t","l","e">>, <<"P","a","g","e"," ","h","a","s"," ","o","g",":","t","i","t","l","e"," ","t","a","g">>,
                IF Truthy(m.ogTitle) THEN "pass" ELSE "warning",
                IF Truthy(m.ogTitle) THEN <<"O","p","e","n"," ","G","r","a","p","h"," ","t","i","t","l","e"," ","i","s"," ","p","r","e","s","e","n","t">>
                ELSE <<"A","d","d"," ","o","g",":","t","i","t","l","e"," ","f","o","r"," ","b","e","t","t","e","r"," ","s","o","c","i","a","l"," ","s","h","a","r","i","n","g">>),
           Item("og-description", "social", "medium",
                <<"O","p","e","n"," ","G","r","a","p","h"," ","D","e","s","c","r","i","p","t","i","o","n">>, <<"P","a","g","e"," ","h","a","s"," ","o","g",":","d","e","s","c","r","i","p","t","i","o","n"," ","t","a","g">>,
                IF Truthy(m.ogDescription) THEN "pass" ELSE "warning",
                IF Truthy(m.ogDescription) THEN <<"O","p","e","n"," ","G","r","a","p","h"," ","d","e","s","c","r","i","p","t","i","o","n"," ","i","s"," ","p","r","e","s","e","n","t">>
                ELSE <<"A","d","d"," ","o","g",":","d","e","s","c","r","i","p","t","i","o","n"," ","f","o","r"," ","b","e","t","t","e","r"," ","s","o","c","i","a","l"," ","s","h","a","r","i","n","g">>),
           Item("og-image", "social", "medium",
                <<"O","p","e","n"," ","G","r","a","p","h"," ","I","m","a","g","e">>, <<"P","a","g","e"," ","h","a","s"," ","o","g",":","i","m","a","g","e"," ","t","a","g">>,
                IF Truthy(m.ogImage) THEN "pass" ELSE "warning",
                IF Truthy(m.ogImage) THEN <<"O","p","e","n"," ","G","r","a","p","h"," ","i","m","a","g","e"," ","i","s"," ","p","r","e","s","e","n","t">>
                ELSE <<"A","d","d"," ","o","g",":","i","m","a","g","e"," ","f","o","r"," ","b","e","t","t","e","r"," ","s","o","c","i","a","l"," ","m","e","d","i","a"," ","p","r","e","v","i","e","w","s">>),
           Item("word-count", "content", "medium",
                <<"A","d","e","q","u","a","t","e"," ","W","o","r","d"," ","C","o","u","n","t">>, <<"P","a","g","e"," ","h","a","s"," ","s","u","f","f","i","c","i","e","n","t"," ","c","o","n","t","e","n","t"," ","(","3","0","0","+"," ","w","o","r","d","s"," ","r","e","c","o","m","m","e","n","d","e","d",")">>,
                IF contentQuality.wordCount >= WordCountGood THEN "pass"
                ELSE IF contentQuality.wordCount >= WordCountFair THEN "warning" ELSE "fail",
                IF contentQuality.wordCount >= WordCountGood THEN <<"W","o","r","d"," ","c","o","u","n","t"," ","i","s"," ","a","d","e","q","u","a","t","e">>
                ELSE <<"A","d","d"," ","m","o","r","e"," ","c","o","n","t","e","n","t"," ","(","c","u","r","r","e","n","t","l","y"," ">> \o NumberToString(contentQuality.wordCount)
                     \o <<" ","w","o","r","d","s",","," ","r","e","c","o","m","m","e","n","d","e","d",":"," ","3","0","0","+",")">>),
           Item("readability", "content", "low",
                <<"C","o","n","t","e","n","t"," ","R","e","a","d","a","b","i","l","i","t","y">>, <<"C","o","n","t","e","n","t"," ","i","s"," ","e","a","s","y"," ","t","o"," ","r","e","a","d">>,
                IF NumGE(contentQuality.readabilityScore, 60) THEN "pass"
                ELSE IF NumGE(contentQuality.readabilityScore, 30) THEN "warning" ELSE "fail",
                IF NumGE(contentQuality.readabilityScore, 60) THEN <<"C","o","n","t","e","n","t"," ","r","e","a","d","a","b","i","l","i","t","y"," ","i","s"," ","g","o","o","d">>
                ELSE <<"I","m","p","r","o","v","e"," ","r","e","a","d","a","b","i","l","i","t","y">>),
           Item("mobile-viewport", "mobile", "high",
                <<"M","o","b","i","l","e"," ","V","i","e","w","p","o","r","t"," ","M","e","t","a"," ","T","a","g">>, <<"P","a","g","e"," ","h","a","s"," ","m","o","b","i","l","e"," ","v","i","e","w","p","o","r","t"," ","m","e","t","a"," ","t","a","g">>,
                IF technicalSEO.mobileViewport.present THEN "pass" ELSE "warning",
                IF technicalSEO.mobileViewport.present THEN <<"M","o","b","i","l","e"," ","v","i","e","w","p","o","r","t"," ","t","a","g"," ","i","s"," ","p","r","e","s","e","n","t">>
                ELSE <<"A","d","d"," ","m","o","b","i","l","e"," ","v","i","e","w","p","o","r","t"," ","m","e","t","a"," ","t","a","g"," ","f","o","r"," ","m","o","b","i","l","e"," ","S","E","O">>) >>

\* items.filter(i => i.status === status).length
CountStatus(items, status) == Cardinality({i \in DOMAIN items : items[i].status = status})

\* Math.floor in place of Math.round
ChecklistScoreFloor(passed, total) == (passed * 100) \div total

\* Math.round((passed / items.length) * 100)
ChecklistScore(passed, total) == RoundDiv(passed * 100, total)

generateSEOChecklist(m) ==
    Bind(ChecklistItems(m, analyzeSEO(m), analyzeKeywords(m),
                        analyzeContentQuality(m), analyzeTechnicalSEO(m)), LAMBDA items :
    Bind(CountStatus(items, "pass"), LAMBDA passed :
        [items |-> items,
         passed |-> passed,
         failed |-> CountStatus(items, "fail"),
         warnings |-> CountStatus(items, "warning"),
         score |-> ChecklistScore(passed, Len(items))]))

----------------------------------------------------------------------------
(* Report aggregator: generateSEOReport of src/lib/ai-generator.ts, lines  *)
(* 468-522                                                                 *)

\* one element of the pages array, with the url trimmed instead of copied
ReportPageTrimmed(meta, seoAnalysis, checklist) ==
    [url |-> trim(meta.url), score |-> checklist.score,
     issues |-> seoAnalysis.issues, recommendations |-> seoAnalysis.suggestions]

\* the pages element with the technical suggestions filtered in both lists
ReportPageFilteredTwice(meta, seoAnalysis, checklist) ==
    Bind(SelectSeq(analyzeTechnicalSEO(meta).suggestions,
                   LAMBDA sug : includes(sug, <<"A","d","d">>) \/ includes(sug, <<"M","i","s","s","i","n","g">>)),
         LAMBDA kept :
        [url |-> meta.url, score |-> checklist.score,
         issues |-> seoAnalysis.issues \o analyzeContentQuality(meta).issues \o kept,
         recommendations |-> seoAnalysis.suggestions \o analyzeKeywords(meta).suggestions
                             \o analyzeContentQuality(meta).suggestions \o kept])

\* one element of the pages array (lines 477-502)
ReportPage(meta, seoAnalysis, checklist) ==
    Bind(analyzeKeywords(meta), LAMBDA keywordAnalysis :
    Bind(analyzeContentQuality(meta), LAMBDA contentQuality :
    Bind(analyzeTechnicalSEO(meta), LAMBDA technicalSEO :
        [url |-> meta.url,
         score |-> checklist.score,
         issues |-> seoAnalysis.issues
                    \o contentQuality.issues
                    \o SelectSeq(technicalSEO.suggestions,
                                 LAMBDA sug : includes(sug, <<"A","d","d">>) \/ includes(sug, <<"M","i","s","s","i","n","g">>)),
         recommendations |-> seoAnalysis.suggestions
                             \o keywordAnalysis.suggestions
                             \o contentQuality.suggestions
                             \o technicalSEO.suggestions])))

\* the mean cut down to an integer instead of rounded
AverageScoreTruncated(analyses) ==
    IF Len(analyses) = 0 THEN NaN
    ELSE Num(Sum([i \in 1..Len(analyses) |-> analyses[i].score]) \div Len(analyses), 1)

\* Math.round(sum / analyses.length): 0 / 0, that is NaN, for no page
AverageScore(analyses) ==
    IF Len(analyses) = 0 THEN NaN
    ELSE Num(RoundDiv(Sum([i \in 1..Len(analyses) |-> analyses[i].score]), Len(analyses)), 1)

\* now stands for new Date().toISOString()
generateSEOReport(list, now) ==
    Bind(Materialize([i \in 1..Len(list) |-> analyzeSEO(list[i])]), LAMBDA analyses :
    Bind(findDuplicates(list), LAMBDA duplicates :
    Bind(Materialize([i \in 1..Len(list) |-> generateSEOChecklist(list[i])]), LAMBDA checklists :
    Bind(Materialize([i \in 1..Len(list) |-> ReportPage(list[i], analyses[i], checklists[i])]),
         LAMBDA pages :
    Bind(Materialize([i \in 1..Len(duplicates) |->
                         [type |-> duplicates[i].key, pages |-> duplicates[i].value]]),
         LAMBDA duplicateList :
        [generatedAt |-> now,
         totalPages |-> Len(list),
         summary |->
            [averageScore |-> AverageScore(analyses),
             pagesWithIssues |-> Len(SelectSeq(analyses, LAMBDA a : Len(a.issues) > 0)),
             totalIssues |-> Sum([i \in 1..Len(analyses) |-> Len(analyses[i].issues)]),
             duplicateContent |-> Len(duplicateList)],
         pages |-> pages,
         duplicates |-> duplicateList])))))

----------------------------------------------------------------------------
(* The report renderers (ai-generator.ts 524-718). A rendering is the       *)
(* sequence of the template's parts in the order they are written to the    *)
(* string, each part holding the values interpolated into it                *)

\* dup.pages.map(p => `#${p + 1}`)
PageNumbers(indices) == Materialize([k \in 1..Len(indices) |-> indices[k] + 1])

\* one line per duplicate group: its type and its page numbers
DuplicateLines(duplicates) ==
    Materialize([k \in 1..Len(duplicates) |->
                    [type |-> duplicates[k].type, pages |-> PageNumbers(duplicates[k].pages)]])

\* a list block, written only when the list is not empty (lines 655-670)
HTMLList(heading, items) ==
    IF Len(items) > 0
    THEN << [heading |-> heading, count |-> Len(items), items |-> items] >>
    ELSE << >>

\* the duplicates block written whether or not there is a duplicate
HTMLDuplicatesAlways(report) ==
    << [part |-> "duplicates", lines |-> DuplicateLines(report.duplicates)] >>

\* lines 639-646
HTMLDuplicates(report) ==
    IF Len(report.duplicates) > 0
    THEN << [part |-> "duplicates", lines |-> DuplicateLines(report.duplicates)] >>
    ELSE << >>

\* lines 650-672
HTMLPage(page) ==
    [part |-> "page-card",
     url |-> page.url,
     scoreClass |-> IF page.score >= 80 THEN "score-high"
                    ELSE IF page.score >= 60 THEN "score-medium" ELSE "score-low",
     score |-> page.score,
     lists |-> HTMLList("Issues", page.issues)
               \o HTMLList("Recommendations", page.recommendations)]

exportReportAsHTML(report) ==
    << [part |-> "title", date |-> report.generatedAt],
       [part |-> "header", generated |-> report.generatedAt],
       [part |-> "summary",
        totalPages |-> report.totalPages,
        averageScore |-> report.summary.averageScore,
        pagesWithIssues |-> report.summary.pagesWithIssues,
        totalIssues |-> report.summary.totalIssues] >>
    \o HTMLDuplicates(report)
    \o << [part |-> "Page-by-Page Analysis"] >>
    \o Materialize([k \in 1..Len(report.pages) |-> HTMLPage(report.pages[k])])

\* items.map((item, i) => `  ${i + 1}. ${item}`)
Numbered(items) == Materialize([k \in 1..Len(items) |-> [number |-> k, text |-> items[k]]])

\* lines 693-698
TextDuplicates(report) ==
    IF Len(report.duplicates) > 0
    THEN << [part |-> "DUPLICATE CONTENT", lines |-> DuplicateLines(report.duplicates)] >>
    ELSE << >>

\* lines 702-715
TextPage(page, idx) ==
    [part |-> "Page",
     number |-> idx + 1,
     url |-> page.url,
     score |-> page.score,
     lists |-> (IF Len(page.issues) > 0
                THEN << [heading |-> "Issues", count |-> Len(page.issues),
                         items |-> Numbered(page.issues)] >>
                ELSE << [heading |-> "No issues found.", count |-> 0, items |-> << >>] >>)
               \o (IF Len(page.recommendations) > 0
                   THEN << [heading |-> "Recommendations", count |-> Len(page.recommendations),
                            items |-> Numbered(page.recommendations)] >>
                   ELSE << >>)]

exportReportAsText(report) ==
    << [part |-> "SEO AUDIT REPORT", generated |-> report.generatedAt],
       [part |-> "SUMMARY",
        totalPages |-> report.totalPages,
        averageScore |-> report.summary.averageScore,
        pagesWithIssues |-> report.summary.pagesWithIssues,
        totalIssues |-> report.summary.totalIssues,
        duplicateContent |-> report.summary.duplicateContent] >>
    \o TextDuplicates(report)
    \o << [part |-> "PAGE-BY-PAGE ANALYSIS"] >>
    \o Materialize([k \in 1..Len(report.pages) |-> TextPage(report.pages[k], k - 1)])

----------------------------------------------------------------------------
(* The per-page entry points, each applied to one PageMetadata record      *)

\* a record with every field of PageMetadata (src/types/index.ts)
PageMetadata(url, title, description, ogTitle, ogDescription, ogImage, canonical, h1) ==
    [url |-> url, title |-> title, description |-> description,
     ogTitle |-> ogTitle, ogDescription |-> ogDescription, ogImage |-> ogImage,
     ogUrl |-> EmptyString, twitterTitle |-> EmptyString,
     twitterDescription |-> EmptyString, twitterImage |-> EmptyString,
     canonical |-> canonical, h1 |-> h1, keywords |-> EmptyString]

GoodUrl == <<"h","t","t","p","s",":","/","/","e","x","a","m","p","l","e",".","c","o","m","/","s","e","o","-","t","o","o","l","s","/","g","u","i","d","e">>
LongText == Fill(<<"g","o"," ","t","o"," ","i","t","."," ">>, 500)

Titles ==
    { EmptyString,
      <<"S","E","O"," ","T","o","o","l","s">>,
      Fill(<<"S","e","o"," ","t","o","o","l","s"," ","g","u","i","d","e"," ">>, 30),
      Fill(<<"B","e","s","t"," ","s","e","o"," ","t","o","o","l","s"," ","f","o","r"," ","s","e","o"," ","t","e","a","m","s","."," ">>, 60),
      Fill(<<"S","e","o"," ","t","o","o","l","s"," ","g","u","i","d","e"," ">>, 61) }

Descriptions ==
    { EmptyString,
      <<"T","o","o","l","s"," ","t","o","o","l","s"," ","t","o","o","l","s"," ","f","o","r"," ","t","e","a","m","s">>,
      Fill(<<"C","o","m","p","a","r","e"," ","t","h","e"," ","b","e","s","t"," ","s","e","o"," ","t","o","o","l","s"," ","a","n","d"," ","p","i","c","k"," ","o","n","e","!"," ">>, 120),
      Fill(<<"I","n","s","t","i","t","u","t","i","o","n","a","l"," ","o","r","g","a","n","i","z","a","t","i","o","n","a","l"," ","c","h","a","r","a","c","t","e","r","i","s","t","i","c","s"," ">>, 160),
      Fill(<<"C","o","m","p","a","r","e"," ","t","h","e"," ","b","e","s","t"," ","s","e","o"," ","t","o","o","l","s"," ","a","n","d"," ","p","i","c","k"," ","o","n","e","!"," ">>, 161) }

Urls ==
    { EmptyString,
      <<"e","x","a","m","p","l","e",".","c","o","m","/","s","e","o","-","g","u","i","d","e">>,
      <<"h","t","t","p","s",":","/","/","e","x","a","m","p","l","e",".","c","o","m","/">>,
      GoodUrl,
      <<"h","t","t","p","s",":","/","/","e","x","a","m","p","l","e",".","c","o","m","/","p","_","1","/","2","0","2","4","0","1","0","1","?","x","=","1">> }

Canonicals == { EmptyString, <<" ">>, GoodUrl }
Headings == { EmptyString, <<"S","e","o"," ","t","o","o","l","s"," ","g","u","i","d","e">> }
OgTitles == { EmptyString, <<"S","e","o"," ","t","o","o","l","s">> }
OgDescriptions == { EmptyString, <<"C","o","m","p","a","r","e"," ","s","e","o"," ","t","o","o","l","s">> }
OgImages == { EmptyString, <<"h","t","t","p","s",":","/","/","e","x","a","m","p","l","e",".","c","o","m","/","a",".","p","n","g">> }

\* every combination of presence and length class of the scored fields
ScoredInputs ==
    { PageMetadata(GoodUrl, t, d, ot, od, oi, c, h) :
        t \in Titles, d \in Descriptions, ot \in OgTitles,
        od \in OgDescriptions, oi \in OgImages, c \in Canonicals, h \in Headings }

\* every url against every canonical, on a bare and on a complete page
UrlInputs ==
    { PageMetadata(u, t, t, t, t, t, c, t) :
        u \in Urls, c \in Canonicals, t \in {EmptyString, <<"S","e","o"," ","t","o","o","l","s"," ","g","u","i","d","e">>} }

\* markup only; 150 words; 300 words
TextInputs ==
    { PageMetadata(GoodUrl, <<"<","b","r",">">>, EmptyString, EmptyString, EmptyString,
                   EmptyString, EmptyString, EmptyString),
      PageMetadata(GoodUrl, EmptyString, LongText, EmptyString, EmptyString,
                   EmptyString, GoodUrl, EmptyString),
      PageMetadata(GoodUrl, EmptyString, LongText, EmptyString, LongText,
                   EmptyString, GoodUrl, <<"S","e","o"," ","t","o","o","l","s"," ","g","u","i","d","e">>) }

MetadataInputs == ScoredInputs \cup UrlInputs \cup TextInputs

----------------------------------------------------------------------------
(* Inputs of the other entry points                                        *)

\* every sequence over S of length at most n
SeqUpTo(S, n) == UNION {[1..k -> S] : k \in 0..n}

MaxTextLen == 3
TextAlphabet == {"a", "e", "b", " ", ".", "<", ">"}
ReadabilityTexts == SeqUpTo(TextAlphabet, MaxTextLen)

\* a page that holds a title and a description and nothing else
TitledPage(title, description) ==
    PageMetadata(EmptyString, title, description, EmptyString, EmptyString,
                 EmptyString, EmptyString, EmptyString)

LongDescription == Fill(<<"a">>, 50)

\* the same title in two spellings, two descriptions that differ only after
\* their 50th character, a page with neither, a whitespace-only title
DuplicatePages ==
    { TitledPage(<<"H","o","m","e"," ","|"," ","E","x","a","m","p","l","e">>, LongDescription \o <<"x">>),
      TitledPage(<<" "," ","H","O","M","E"," ","|"," ","e","x","a","m","p","l","e"," ">>, LongDescription \o <<"y">>),
      TitledPage(EmptyString, EmptyString),
      TitledPage(<<"A","b","o","u","t">>, <<"A","b","o","u","t"," ","u","s">>),
      TitledPage(<<" ">>, <<"A","B","O","U","T"," ","U","S"," ">>) }

MaxPages == 4
DuplicateLists == SeqUpTo(DuplicatePages, MaxPages)

\* count copies of word, each followed by sep
Repeat(word, sep, count) == Fill(word \o sep, count * (Len(word) + Len(sep)))

MaxOccurrences == 5
MinWords == 97
MaxWords == 103
Placements == {"description", "title", "punctuated"}

\* a page whose combined text has n words, k of them the keyword "widget" and
\* the others too short to be keywords
DensityPage(k, n, place) ==
    IF place = "title" /\ k > 0
    THEN TitledPage(<<"W","i","d","g","e","t">>, Repeat(<<"w","i","d","g","e","t">>, <<" ">>, k - 1) \o Repeat(<<"a","b">>, <<" ">>, n - k))
    ELSE IF place = "punctuated"
    THEN TitledPage(EmptyString, Repeat(<<"W","i","d","g","e","t">>, <<","," ">>, k) \o Repeat(<<"a","b">>, <<"."," ">>, n - k))
    ELSE TitledPage(EmptyString, Repeat(<<"w","i","d","g","e","t">>, <<" ">>, k) \o Repeat(<<"a","b">>, <<" ">>, n - k))

DensityInputs ==
    { DensityPage(k, n, place) :
        k \in 0..MaxOccurrences, n \in MinWords..MaxWords, place \in Placements }

\* urls that trimming or case folding would change, a url used twice, no url
ReportPages ==
    { PageMetadata(EmptyString, EmptyString, EmptyString, EmptyString, EmptyString,
                   EmptyString, EmptyString, EmptyString),
      PageMetadata(<<" ","H","T","T","P","S",":","/","/","E","x","a","m","p","l","e",".","c","o","m","/","A","_","b"," ">>, <<"S","e","o"," ","t","o","o","l","s">>, <<"C","o","m","p","a","r","e"," ","s","e","o"," ","t","o","o","l","s">>,
                   EmptyString, EmptyString, EmptyString, EmptyString, <<"S","e","o"," ","t","o","o","l","s">>),
      PageMetadata(GoodUrl, <<"S","e","o"," ","t","o","o","l","s">>, <<"C","o","m","p","a","r","e"," ","s","e","o"," ","t","o","o","l","s">>, <<"S","e","o"," ","t","o","o","l","s">>,
                   <<"C","o","m","p","a","r","e"," ","s","e","o"," ","t","o","o","l","s">>, <<"h","t","t","p","s",":","/","/","e","x","a","m","p","l","e",".","c","o","m","/","a",".","p","n","g">>, GoodUrl, <<"S","e","o"," ","t","o","o","l","s">>),
      PageMetadata(GoodUrl, <<"s","e","o"," ","t","o","o","l","s"," ">>, EmptyString, EmptyString, EmptyString,
                   EmptyString, GoodUrl, EmptyString) }

MaxReportPages == 3
ReportLists == SeqUpTo(ReportPages, MaxReportPages)

Instants == {"2024-01-01T00:00:00.000Z", "2024-06-30T12:00:00.000Z"}

----------------------------------------------------------------------------
(* The entry points as actions: one call on one input                      *)

\* no extractMetadataBatch is running
NoBatch ==
    [pc |-> "idle", urls |-> << >>, onProgress |-> FALSE, i |-> 0, results |-> << >>,
     progress |-> << >>, events |-> << >>]

NoOutcome == [threw |-> FALSE, error |-> "", value |-> << >>]
NoPage == TitledPage(EmptyString, EmptyString)

Invoke(name, result) ==
    /\ call = "none"
    /\ call' = name
    /\ outcome' = result
    /\ UNCHANGED <<metadata, metadataList, textInput, batch, selectedRows,
                   selectedRowForAI, loadTime, localStorage, savedResults>>

AnalyzeSEO == Invoke("analyzeSEO", Returned(analyzeSEO(metadata)))

AnalyzeSEOWithCategories ==
    Invoke("analyzeSEOWithCategories", analyzeSEOWithCategories(metadata))

AnalyzeKeywords == Invoke("analyzeKeywords", Returned(analyzeKeywords(metadata)))

AnalyzeContentQuality ==
    Invoke("analyzeContentQuality", Returned(analyzeContentQuality(metadata)))

AnalyzeTechnicalSEO ==
    Invoke("analyzeTechnicalSEO", Returned(analyzeTechnicalSEO(metadata)))

GenerateSEOChecklist ==
    Invoke("generateSEOChecklist", Returned(generateSEOChecklist(metadata)))

CalculateReadability ==
    Invoke("calculateReadability", Returned(calculateReadability(textInput)))

FindDuplicates == Invoke("findDuplicates", Returned(findDuplicates(metadataList)))

GenerateSEOReport ==
    \E now \in Instants :
        Invoke("generateSEOReport", Returned(generateSEOReport(metadataList, now)))

\* the renderers are applied to the report generated from metadataList
ExportReportAsHTML ==
    \E now \in Instants :
        Invoke("exportReportAsHTML",
               Returned(exportReportAsHTML(generateSEOReport(metadataList, now))))

ExportReportAsText ==
    \E now \in Instants :
        Invoke("exportReportAsText",
               Returned(exportReportAsText(generateSEOReport(metadataList, now))))

\* the per-page entry points, each applied to one PageMetadata record
Init ==
    /\ metadata \in MetadataInputs
    /\ metadataList = << >>
    /\ textInput = EmptyString
    /\ call = "none"
    /\ outcome = NoOutcome
    /\ batch = NoBatch
    /\ selectedRows = {}
    /\ selectedRowForAI = NoRow
    /\ loadTime = NoLoadTime
    /\ localStorage = EmptyStorage
    /\ savedResults = NothingSaved

Next ==
    \/ AnalyzeSEO
    \/ AnalyzeSEOWithCategories
    \/ AnalyzeKeywords
    \/ AnalyzeContentQuality
    \/ AnalyzeTechnicalSEO
    \/ GenerateSEOChecklist

Spec == Init /\ [][Next]_vars

\* calculateReadability applied to every short text
InitReadability ==
    /\ textInput \in ReadabilityTexts
    /\ metadata = NoPage
    /\ metadataList = << >>
    /\ call = "none"
    /\ outcome = NoOutcome
    /\ batch = NoBatch
    /\ selectedRows = {}
    /\ selectedRowForAI = NoRow
    /\ loadTime = NoLoadTime
    /\ localStorage = EmptyStorage
    /\ savedResults = NothingSaved

NextReadability == CalculateReadability

SpecReadability == InitReadability /\ [][NextReadability]_vars

\* findDuplicates applied to every short list of pages
InitDuplicates ==
    /\ metadataList \in DuplicateLists
    /\ metadata = NoPage
    /\ textInput = EmptyString
    /\ call = "none"
    /\ outcome = NoOutcome
    /\ batch = NoBatch
    /\ selectedRows = {}
    /\ selectedRowForAI = NoRow
    /\ loadTime = NoLoadTime
    /\ localStorage = EmptyStorage
    /\ savedResults = NothingSaved

NextDuplicates == FindDuplicates

SpecDuplicates == InitDuplicates /\ [][NextDuplicates]_vars

\* analyzeKeywords applied to pages of about a hundred words
InitDensity ==
    /\ metadata \in DensityInputs
    /\ metadataList = << >>
    /\ textInput = EmptyString
    /\ call = "none"
    /\ outcome = NoOutcome
    /\ batch = NoBatch
    /\ selectedRows = {}
    /\ selectedRowForAI = NoRow
    /\ loadTime = NoLoadTime
    /\ localStorage = EmptyStorage
    /\ savedResults = NothingSaved

NextDensity == AnalyzeKeywords

SpecDensity == InitDensity /\ [][NextDensity]_vars

\* generateSEOReport applied to every short list of pages
InitReport ==
    /\ metadataList \in ReportLists
    /\ metadata = NoPage
    /\ textInput = EmptyString
    /\ call = "none"
    /\ outcome = NoOutcome
    /\ batch = NoBatch
    /\ selectedRows = {}
    /\ selectedRowForAI = NoRow
    /\ loadTime = NoLoadTime
    /\ localStorage = EmptyStorage
    /\ savedResults = NothingSaved

NextReport == GenerateSEOReport

SpecReport == InitReport /\ [][NextReport]_vars

\* analyzeTechnicalSEO applied to pages that differ in the path of their url
MaxPathLen == 4
PathAlphabet == {"s", "E", "o", "1", "/"}
PathPages ==
    { PageMetadata(<<"h","t","t","p","s",":","/","/","e","x","a","m","p","l","e",".","c","o","m","/">> \o rest, EmptyString, EmptyString, EmptyString,
                   EmptyString, EmptyString, EmptyString, EmptyString) :
        rest \in SeqUpTo(PathAlphabet, MaxPathLen) }

InitPaths ==
    /\ metadata \in PathPages
    /\ metadataList = << >>
    /\ textInput = EmptyString
    /\ call = "none"
    /\ outcome = NoOutcome
    /\ batch = NoBatch
    /\ selectedRows = {}
    /\ selectedRowForAI = NoRow
    /\ loadTime = NoLoadTime
    /\ localStorage = EmptyStorage
    /\ savedResults = NothingSaved

NextPaths == AnalyzeTechnicalSEO

SpecPaths == InitPaths /\ [][NextPaths]_vars

\* the two renderers, each applied to the report of a list of pages
InitExport ==
    /\ metadataList \in ReportLists
    /\ metadata = NoPage
    /\ textInput = EmptyString
    /\ call = "none"
    /\ outcome = NoOutcome
    /\ batch = NoBatch
    /\ selectedRows = {}
    /\ selectedRowForAI = NoRow
    /\ loadTime = NoLoadTime
    /\ localStorage = EmptyStorage
    /\ savedResults = NothingSaved

NextExport == ExportReportAsHTML \/ ExportReportAsText

SpecExport == InitExport /\ [][NextExport]_vars

----------------------------------------------------------------------------
(* extractMetadataBatch (ai-generator.ts 178-215), one action per step of   *)
(* its loop. batch.progress is the list of the onProgress calls made so     *)
(* far; batch.events is the history of what the function did: the urls it   *)
(* attempted, the records it pushed and the progress calls it made          *)

MaxUrls == 3
BatchUrls == { <<"h","t","t","p","s",":","/","/","a",".","e","x","a","m","p","l","e","/">>, <<"h","t","t","p","s",":","/","/","b",".","e","x","a","m","p","l","e","/","x">> }

\* what extractMetadata can read from a fetched page: a title and a
\* description, either of which the page may lack
FetchedPages ==
    { TitledPage(<<"S","e","o"," ","t","o","o","l","s">>, <<"C","o","m","p","a","r","e"," ","s","e","o"," ","t","o","o","l","s">>),
      TitledPage(<<"S","e","o"," ","t","o","o","l","s">>, EmptyString),
      TitledPage(EmptyString, EmptyString) }

\* the record extractMetadata returns (lines 158-172): url is its argument
ExtractedRecord(url, page) == [page EXCEPT !.url = url]

\* the record pushed when extractMetadata throws (lines 187-201)
FailedRecord(url) == [TitledPage(EmptyString, EmptyString) EXCEPT !.url = url]

\* the first argument of onProgress counted from 0
ProgressCurrentFromZero(i) == i

\* onProgress(i + 1, urls.length): the first argument
ProgressCurrent(i) == i + 1

\* a record event keeps the record as it was pushed
BatchStep(pc, i, results, progress, event) ==
    /\ batch' = [batch EXCEPT !.pc = pc, !.i = i, !.results = results,
                              !.progress = progress,
                              !.events = batch.events \o
                                  [k \in 1..Len(event) |->
                                      IF event[k].kind = "record"
                                      THEN [kind |-> "record", index |-> event[k].index,
                                            failed |-> event[k].failed,
                                            pushed |-> results[Len(results)]]
                                      ELSE event[k]]]
    /\ UNCHANGED <<metadata, metadataList, textInput, selectedRows,
                   selectedRowForAI, loadTime, localStorage, savedResults>>

\* line 181: the loop test; line 214: return results
BatchLoop ==
    /\ batch.pc = "loop"
    /\ IF batch.i < Len(batch.urls)
       THEN /\ BatchStep("extract", batch.i, batch.results, batch.progress,
                         << [kind |-> "attempt", index |-> batch.i] >>)
            /\ UNCHANGED <<call, outcome>>
       ELSE /\ BatchStep("done", batch.i, batch.results, batch.progress, << >>)
            /\ call' = "extractMetadataBatch"
            /\ outcome' = Returned(batch.results)

\* lines 183-184: extractMetadata(urls[i]) resolves and its record is pushed
ExtractMetadataResolves ==
    /\ batch.pc = "extract"
    /\ \E page \in FetchedPages :
           BatchStep("progress", batch.i,
                     Append(batch.results, ExtractedRecord(batch.urls[batch.i + 1], page)),
                     batch.progress,
                     << [kind |-> "record", index |-> batch.i, failed |-> FALSE] >>)
    /\ UNCHANGED <<call, outcome>>

\* lines 185-202: extractMetadata(urls[i]) rejects and an empty record is pushed
ExtractMetadataRejects ==
    /\ batch.pc = "extract"
    /\ BatchStep("progress", batch.i,
                 Append(batch.results, FailedRecord(batch.urls[batch.i + 1])),
                 batch.progress,
                 << [kind |-> "record", index |-> batch.i, failed |-> TRUE] >>)
    /\ UNCHANGED <<call, outcome>>

\* lines 204-211: the progress call, if there is a callback; then the delay
\* unless this was the last url, in which case i++ follows at once
ReportProgress ==
    /\ batch.pc = "progress"
    /\ BatchStep(IF batch.i < Len(batch.urls) - 1 THEN "delay" ELSE "loop",
                 IF batch.i < Len(batch.urls) - 1 THEN batch.i ELSE batch.i + 1,
                 batch.results,
                 IF batch.onProgress
                 THEN Append(batch.progress,
                             [current |-> ProgressCurrent(batch.i), total |-> Len(batch.urls)])
                 ELSE batch.progress,
                 IF batch.onProgress
                 THEN << [kind |-> "progress", index |-> ProgressCurrent(batch.i)] >>
                 ELSE << >>)
    /\ UNCHANGED <<call, outcome>>

\* line 210: the 100 ms timer fires; then i++
BatchDelay ==
    /\ batch.pc = "delay"
    /\ BatchStep("loop", batch.i + 1, batch.results, batch.progress, << >>)
    /\ UNCHANGED <<call, outcome>>

InitBatch ==
    /\ metadata = NoPage
    /\ metadataList = << >>
    /\ textInput = EmptyString
    /\ call = "none"
    /\ outcome = NoOutcome
    /\ selectedRows = {}
    /\ selectedRowForAI = NoRow
    /\ loadTime = NoLoadTime
    /\ localStorage = EmptyStorage
    /\ savedResults = NothingSaved
    /\ \E urls \in SeqUpTo(BatchUrls, MaxUrls) : \E onProgress \in BOOLEAN :
           batch = [NoBatch EXCEPT !.pc = "loop", !.urls = urls, !.onProgress = onProgress]

NextBatch ==
    \/ BatchLoop
    \/ ExtractMetadataResolves
    \/ ExtractMetadataRejects
    \/ ReportProgress
    \/ BatchDelay

SpecBatch == InitBatch /\ [][NextBatch]_vars

----------------------------------------------------------------------------
(* The bulk patterns 'Replace in Title' and 'Replace in Description'        *)
(* (ai-generator.ts 266-289). The patterns of the model hold no character   *)
(* that is special in a regular expression or in a replacement string, so   *)
(* that new RegExp(oldText, 'gi') matches oldText itself, whatever the case *)

\* pattern.split('|'): the pieces between one "|" (or the start) and the
\* next "|" (or the end)
SplitBar(s) ==
    Bind(<<0>> \o SelectSeq(Indices(Len(s)), LAMBDA i : s[i] = "|") \o <<Len(s) + 1>>,
         LAMBDA cuts :
        Materialize([k \in 1..(Len(cuts) - 1) |-> SubSeq(s, cuts[k] + 1, cuts[k + 1] - 1)]))

\* oldText matches text at pos, whatever the case
MatchesAt(text, pos, oldText) ==
    /\ pos + Len(oldText) - 1 <= Len(text)
    /\ toLowerCase(SubSeq(text, pos, pos + Len(oldText) - 1)) = toLowerCase(oldText)

\* text.replace(new RegExp(oldText, 'gi'), newText) from pos on, for a
\* non-empty oldText: the matches are taken from left to right and do not
\* overlap
RECURSIVE ReplaceFrom(_, _, _, _)
ReplaceFrom(text, pos, oldText, newText) ==
    IF pos > Len(text) THEN << >>
    ELSE IF MatchesAt(text, pos, oldText)
         THEN newText \o ReplaceFrom(text, pos + Len(oldText), oldText, newText)
         ELSE << text[pos] >> \o ReplaceFrom(text, pos + 1, oldText, newText)

ReplaceAll(text, oldText, newText) == ReplaceFrom(text, 1, oldText, newText)

\* const [oldText, newText] = pattern.split('|'): a piece that is not
\* there is undefined, which !oldText || !newText treats as the empty string
Piece(pieces, k) == IF k <= Len(pieces) THEN pieces[k] ELSE EmptyString

\* the apply of 'Replace in Title' (field title) and of 'Replace in
\* Description' (field description)
ReplaceIn(field, meta, pattern) ==
    Bind(Piece(SplitBar(pattern), 1), LAMBDA oldText :
    Bind(Piece(SplitBar(pattern), 2), LAMBDA newText :
        IF ~Truthy(oldText) \/ ~Truthy(newText) THEN meta
        ELSE [meta EXCEPT ![field] = ReplaceAll(meta[field], oldText, newText)]))

MaxPatternLen == 5
PatternAlphabet == {"s", "e", "X", "|"}
Patterns == SeqUpTo(PatternAlphabet, MaxPatternLen)

PatternPages ==
    { PageMetadata(GoodUrl, <<"S","e","o"," ","s","E","e">>, <<"s","e","e"," ","S","E","S">>, <<"S","e","o">>, EmptyString, EmptyString,
                   GoodUrl, <<"S","e","o">>),
      PageMetadata(GoodUrl, EmptyString, <<"s","|","e">>, EmptyString, EmptyString, EmptyString,
                   EmptyString, EmptyString) }

\* the pattern is the string in textInput
ReplaceInTitle ==
    Invoke("Replace in Title", Returned(ReplaceIn("title", metadata, textInput)))

ReplaceInDescription ==
    Invoke("Replace in Description", Returned(ReplaceIn("description", metadata, textInput)))

\* the two replace patterns, each applied to one page with one pattern string
InitPatterns ==
    /\ metadata \in PatternPages
    /\ textInput \in Patterns
    /\ metadataList = << >>
    /\ call = "none"
    /\ outcome = NoOutcome
    /\ batch = NoBatch
    /\ selectedRows = {}
    /\ selectedRowForAI = NoRow
    /\ loadTime = NoLoadTime
    /\ localStorage = EmptyStorage
    /\ savedResults = NothingSaved

NextPatterns == ReplaceInTitle \/ ReplaceInDescription

SpecPatterns == InitPatterns /\ [][NextPatterns]_vars

----------------------------------------------------------------------------
(* The Metadata Analyzer page (src/app/metadata-analyzer/page.tsx) and its  *)
(* bulk edit panel (BulkEditPanel.tsx): the handlers as actions on the page *)
(* state. metadataList is the page's metadata array and selectedRows its    *)
(* selection; call names the handler that ran last, and outcome.value what  *)
(* it was given. Rendering is not modelled: a handler is taken to be        *)
(* callable whenever the element it is attached to would be shown.          *)

MaxRows == 3

\* what a property read gives when the row or the property is not there
Absent == << "undefined" >>

\* an index the array has no element at (a hole of a sparse array)
Hole == [hole |-> TRUE]
IsHole(row) == "hole" \in DOMAIN row

AllFields == DOMAIN TitledPage(EmptyString, EmptyString)

\* a row that holds every field of PageMetadata
IsFullRow(row) == DOMAIN row = AllFields
Dense(list) == \A k \in 1..Len(list) : IsFullRow(list[k])

\* list[index]?.[field], index counted from 0
Field(list, index, field) ==
    IF index + 1 \in 1..Len(list) /\ field \in DOMAIN list[index + 1]
    THEN list[index + 1][field]
    ELSE Absent

\* { ...row, ...updates }
Merge(row, updates) ==
    [f \in (DOMAIN row \ {"hole"}) \cup DOMAIN updates |->
        IF f \in DOMAIN updates THEN updates[f] ELSE row[f]]

\* the pages a sitemap extraction, a CSV file or a saved session can hold:
\* one whose extraction succeeded and one whose extraction failed
PageRows ==
    { ExtractedRecord(<<"h","t","t","p","s",":","/","/","a",".","e","x","a","m","p","l","e","/">>, TitledPage(<<"S","e","o"," ","t","o","o","l","s">>, <<"C","o","m","p","a","r","e"," ","s","e","o"," ","t","o","o","l","s">>)),
      FailedRecord(<<"h","t","t","p","s",":","/","/","b",".","e","x","a","m","p","l","e","/","x">>) }

PageLists == SeqUpTo(PageRows, MaxRows)

\* the fields of the bulk edit form (BulkEditPanel.tsx 20-26)
FormFields == {"title", "description", "ogTitle", "ogDescription", "h1"}

\* what the user can have typed into the form
EnteredForms ==
    { [f \in FormFields |->
          IF f = "title" THEN title ELSE IF f = "description" THEN description
          ELSE EmptyString] :
        title \in { EmptyString, <<" ","N","e","w"," ">> },
        description \in { EmptyString, <<" "," ">> } }

\* the entered values kept as typed
NonEmptyUpdatesUntrimmed(entered) ==
    Bind({f \in DOMAIN entered : Truthy(entered[f]) /\ Truthy(trim(entered[f]))},
         LAMBDA kept : [f \in kept |-> entered[f]])

\* nonEmptyUpdates of handleApply (BulkEditPanel.tsx 34-39)
NonEmptyUpdates(entered) ==
    Bind({f \in DOMAIN entered : Truthy(entered[f]) /\ Truthy(trim(entered[f]))},
         LAMBDA kept : [f \in kept |-> trim(entered[f])])

\* updated[index] = value on a copy of the array, index counted from 0: an
\* index past the end lengthens the array and leaves holes in between
ArraySet(list, index, value) ==
    [k \in 1..Max(Len(list), index + 1) |->
        IF k = index + 1 THEN value
        ELSE IF k <= Len(list) THEN list[k] ELSE Hole]

\* the setMetadata updater of handleBulkUpdate (page.tsx 130-136); indices
\* is the selection still to be visited
RECURSIVE BulkUpdated(_, _, _)
BulkUpdated(list, indices, updates) ==
    IF indices = {} THEN list
    ELSE Bind(CHOOSE index \in indices : \A other \in indices : index <= other,
              LAMBDA index :
                  BulkUpdated(ArraySet(list, index,
                                       Merge(IF index < Len(list) THEN list[index + 1]
                                             ELSE Hole, updates)),
                              indices \ {index}, updates))

\* a handler of the page has run: what it was given, and the array, the
\* selection and the row of the AI generator it leaves
PageStepAI(name, given, list, selection, rowForAI) ==
    /\ call' = name
    /\ outcome' = Returned(given)
    /\ metadataList' = list
    /\ selectedRows' = selection
    /\ selectedRowForAI' = rowForAI
    /\ UNCHANGED <<metadata, textInput, batch, loadTime, localStorage, savedResults>>

\* a handler that does not call setSelectedRowForAI
PageStep(name, given, list, selection) ==
    PageStepAI(name, given, list, selection, selectedRowForAI)

\* page.tsx 56-91: an empty sitemap returns at line 59; otherwise the
\* extracted records replace the array (line 72)
HandleUrlsExtracted ==
    \E extracted \in PageLists :
        PageStep("handleUrlsExtracted", extracted,
                 IF Len(extracted) = 0 THEN metadataList ELSE extracted, selectedRows)

\* page.tsx 150-163: the imported rows replace the array (line 156); the
\* import button is shown when the array is not empty (line 254)
HandleImportCSV ==
    /\ Len(metadataList) > 0
    /\ \E imported \in PageLists :
           PageStep("handleImportCSV", imported, imported, selectedRows)

\* page.tsx 105-119: the checkbox of a row of the table toggles its index;
\* unticking the row the AI generator is open for closes the generator
HandleSelectRow ==
    \E index \in 0..(Len(metadataList) - 1) :
        /\ ~IsHole(metadataList[index + 1])
        /\ PageStepAI("handleSelectRow", index, metadataList,
                      IF index \in selectedRows THEN selectedRows \ {index}
                      ELSE selectedRows \cup {index},
                      IF index \in selectedRows /\ selectedRowForAI = {index}
                      THEN NoRow ELSE selectedRowForAI)

\* page.tsx 121-127
HandleSelectAll ==
    /\ Len(metadataList) > 0
    /\ \A k \in 1..Len(metadataList) : ~IsHole(metadataList[k])
    /\ PageStep("handleSelectAll", << >>, metadataList,
                IF Cardinality(selectedRows) = Len(metadataList) THEN {}
                ELSE 0..(Len(metadataList) - 1))

\* page.tsx 330: onClearSelection
ClearSelection ==
    /\ Len(metadataList) > 0 /\ selectedRows # {}
    /\ PageStep("onClearSelection", << >>, metadataList, {})

\* BulkEditPanel.tsx 32-54 and page.tsx 129-139: the panel is there when
\* the array is not empty and something is selected; with nothing entered
\* handleApply returns at line 42
HandleApply ==
    /\ Len(metadataList) > 0 /\ selectedRows # {}
    /\ \E entered \in EnteredForms :
           IF DOMAIN NonEmptyUpdates(entered) = {}
           THEN PageStep("handleApply", entered, metadataList, selectedRows)
           ELSE PageStep("handleApply", entered,
                         BulkUpdated(metadataList, selectedRows, NonEmptyUpdates(entered)),
                         {})

\* a row handleRetryFailed takes for a failed extraction (page.tsx 167, 190)
IsEmptyRow(row) ==
    ~Truthy(row.title) /\ ~Truthy(row.description) /\ ~Truthy(row.h1)

\* page.tsx 165-217, for an array of whole rows and with no other handler
\* running while the extraction is awaited: each row without title,
\* description and h1 is replaced by what the new extraction of its url gave
HandleRetryFailed ==
    /\ Len(metadataList) > 0 /\ Dense(metadataList)
    /\ \E k \in 1..Len(metadataList) : IsEmptyRow(metadataList[k])
    /\ \E fetched \in [1..Len(metadataList) ->
                          { TitledPage(<<"S","e","o"," ","t","o","o","l","s">>, <<"C","o","m","p","a","r","e"," ","s","e","o"," ","t","o","o","l","s">>),
                            TitledPage(EmptyString, EmptyString) }] :
           PageStep("handleRetryFailed", << >>,
                    [k \in 1..Len(metadataList) |->
                        IF IsEmptyRow(metadataList[k])
                        THEN ExtractedRecord(metadataList[k].url, fetched[k])
                        ELSE metadataList[k]],
                    selectedRows)

\* what the AI generator hands to onGenerated
GeneratedTitles == { <<"N","e","w">> }
GeneratedDescriptions == { <<"C","o","m","p","a","r","e"," ","s","e","o"," ","t","o","o","l","s">> }

\* page.tsx 348-360: the 'Generate with AI' button, shown when exactly one
\* row is selected and no generator is open: setSelectedRowForAI of the
\* selected index
OpenAIGenerator ==
    /\ Len(metadataList) > 0
    /\ Cardinality(selectedRows) = 1
    /\ selectedRowForAI = NoRow
    /\ PageStepAI("setSelectedRowForAI", << >>, metadataList, selectedRows,
                  selectedRows)

\* page.tsx 333-341: the generator is rendered when its row exists;
\* onGenerated sets the row's title and description (handleUpdateMetadata,
\* 97-103) and closes the generator
OnGenerated ==
    /\ Len(metadataList) > 0
    /\ \E index \in selectedRowForAI :
           /\ index < Len(metadataList)
           /\ ~IsHole(metadataList[index + 1])
           /\ \E title \in GeneratedTitles : \E description \in GeneratedDescriptions :
                  PageStepAI("onGenerated", [title |-> title, description |-> description],
                             ArraySet(metadataList, index,
                                      Merge(metadataList[index + 1],
                                            [title |-> title, description |-> description])),
                             selectedRows, NoRow)

\* the page after mount: the array is empty or a saved session (page.tsx
\* 36-43), nothing is selected
InitPage ==
    /\ metadataList \in PageLists
    /\ selectedRows = {}
    /\ selectedRowForAI = NoRow
    /\ loadTime = NoLoadTime
    /\ localStorage = EmptyStorage
    /\ savedResults = NothingSaved
    /\ metadata = NoPage
    /\ textInput = EmptyString
    /\ call = "none"
    /\ outcome = NoOutcome
    /\ batch = NoBatch

NextPage ==
    \/ HandleUrlsExtracted
    \/ HandleImportCSV
    \/ HandleSelectRow
    \/ HandleSelectAll
    \/ ClearSelection
    \/ HandleApply
    \/ HandleRetryFailed

SpecPage == InitPage /\ [][NextPage]_vars

\* the page with its AI generator, the array being changed by bulk edits
\* and by the generator only
NextGenerator ==
    \/ HandleSelectRow
    \/ HandleSelectAll
    \/ ClearSelection
    \/ HandleApply
    \/ OpenAIGenerator
    \/ OnGenerated

SpecGenerator == InitPage /\ [][NextGenerator]_vars

----------------------------------------------------------------------------
(* Properties of the per-page entry points (Spec)                          *)

Ran(name) == call = name /\ ~outcome.threw

\* analyzeSEO is defined twice: in src/lib/seo-optimizer.ts and, with the
\* category scores, in src/lib/storage.ts
AnalyzeSEOCalls == {"analyzeSEO", "analyzeSEOWithCategories"}

Abs(x) == IF x < 0 THEN -x ELSE x

\* passed + failed + warnings = total, and score is the integer nearest to
\* passed / total * 100
CountsAddUp(c, total) ==
    /\ c.passed + c.failed + c.warnings = total
    /\ 2 * Abs(c.score * total - 100 * c.passed) <= total

\* C1 as stated: the counts of every checklist add up to 19 and the score is
\* round(passed / 19 * 100)
C1_CountsOf19 ==
    Ran("generateSEOChecklist") => CountsAddUp(outcome.value, 19)

\* C1, amended: generateSEOChecklist pushes 18 items; the counts of every
\* checklist add up to 18 and the score is round(passed / 18 * 100)
C1_CountsOf18 ==
    Ran("generateSEOChecklist") =>
        /\ Len(outcome.value.items) = 18
        /\ CountsAddUp(outcome.value, 18)

\* C1 witness: a checklist with passes, failures and warnings whose score is
\* rounded up
C1_MixedChecklist ==
    /\ Ran("generateSEOChecklist")
    /\ outcome.value.passed > 0
    /\ outcome.value.failed > 0
    /\ outcome.value.warnings > 0
    /\ outcome.value.score * 18 > 100 * outcome.value.passed

Complete(m) ==
    /\ Len(m.title) \in 30..60
    /\ Len(m.description) \in 120..160
    /\ m.h1 # EmptyString /\ m.canonical # EmptyString
    /\ m.ogTitle # EmptyString /\ m.ogDescription # EmptyString /\ m.ogImage # EmptyString

\* C2 as stated: analyzeSEO, applied to a record with title length in 30..60,
\* description length in 120..160 and non-empty h1, canonical, ogTitle,
\* ogDescription, ogImage, returns score 100
C2_CompleteScores100 ==
    (call \in AnalyzeSEOCalls /\ Complete(metadata)) =>
        ~outcome.threw /\ outcome.value.score = 100

\* C2, the analyzeSEO of seo-optimizer.ts alone: a complete record scores 100
C2_OptimizerScores100 ==
    (Ran("analyzeSEO") /\ Complete(metadata)) => outcome.value.score = 100

\* C2, the failing case: the analyzeSEO of storage.ts has raised on a
\* complete record
C2_CompleteRaises ==
    /\ call = "analyzeSEOWithCategories" /\ Complete(metadata)
    /\ Len(metadata.title) = 60 /\ Len(metadata.description) = 160
    /\ outcome.threw

TextFields ==
    {"title", "description", "ogTitle", "ogDescription", "ogImage", "ogUrl",
     "twitterTitle", "twitterDescription", "twitterImage", "canonical", "h1", "keywords"}

AllTextEmpty(m) == m.url # EmptyString /\ \A f \in TextFields : m[f] = EmptyString

SixIssues ==
    { <<"M","i","s","s","i","n","g"," ","t","i","t","l","e"," ","t","a","g">>, <<"M","i","s","s","i","n","g"," ","m","e","t","a"," ","d","e","s","c","r","i","p","t","i","o","n">>, <<"M","i","s","s","i","n","g"," ","H","1"," ","t","a","g">>,
      <<"M","i","s","s","i","n","g"," ","O","p","e","n"," ","G","r","a","p","h"," ","t","i","t","l","e">>, <<"M","i","s","s","i","n","g"," ","O","p","e","n"," ","G","r","a","p","h"," ","i","m","a","g","e">>, <<"M","i","s","s","i","n","g"," ","c","a","n","o","n","i","c","a","l"," ","U","R","L">> }

\* C3 as stated: with every text field but url empty, the issues include the
\* six "Missing ..." issues and the score is 35
C3_EmptyScores35 ==
    (Ran("analyzeSEO") /\ AllTextEmpty(metadata)) =>
        /\ SixIssues \subseteq Range(outcome.value.issues)
        /\ outcome.value.score = 35

\* C3, amended: with every text field but url empty, the issues returned by
\* analyzeSEO (seo-optimizer.ts) include the six "Missing ..." issues and
\* also "Missing Open Graph description", and the score is
\* 100 - 20 - 20 - 10 - 5 - 5 - 5 - 5 = 30
C3_EmptyScores30 ==
    (Ran("analyzeSEO") /\ AllTextEmpty(metadata)) =>
        /\ SixIssues \subseteq Range(outcome.value.issues)
        /\ <<"M","i","s","s","i","n","g"," ","O","p","e","n"," ","G","r","a","p","h"," ","d","e","s","c","r","i","p","t","i","o","n">> \in Range(outcome.value.issues)
        /\ Len(outcome.value.issues) = 7
        /\ outcome.value.score = 30

\* C3 witness: analyzeSEO has run on a record that holds a url and nothing else
C3_EmptyAnalyzed == Ran("analyzeSEO") /\ AllTextEmpty(metadata)

RequiredFields ==
    {"title", "description", "h1", "ogTitle", "ogDescription", "ogImage", "canonical"}

Without(m, f) == [m EXCEPT ![f] = EmptyString]

\* the score of the call that ran lies in 0..100 and emptying any one
\* required field of the record never raises it
ScoreBoundedAndMonotonic ==
    /\ outcome.value.score \in 0..100
    /\ \A f \in RequiredFields :
           analyzeSEO(Without(metadata, f)).score <= outcome.value.score

\* C4 as stated: every analyzeSEO call yields a score in 0..100, and emptying
\* any one required field of the record never raises it
C4_ScoreMonotonic ==
    call \in AnalyzeSEOCalls => ~outcome.threw /\ ScoreBoundedAndMonotonic

\* C4, the analyzeSEO of seo-optimizer.ts alone
C4_OptimizerScoreMonotonic == Ran("analyzeSEO") => ScoreBoundedAndMonotonic

\* C4, the failing case: the analyzeSEO of storage.ts has raised, so that
\* there is no score, on a record whose every required field is present
C4_NoScore ==
    /\ call = "analyzeSEOWithCategories" /\ outcome.threw
    /\ \A f \in RequiredFields : metadata[f] # EmptyString

\* C5 as stated: no entry point raises an exception, whatever the record
C5_NeverThrows == call # "none" => ~outcome.threw

\* C5, the failing case: the analyzeSEO of storage.ts has raised a
\* ReferenceError on a record whose text fields are all empty
C5_ReferenceError ==
    /\ call = "analyzeSEOWithCategories" /\ AllTextEmpty(metadata)
    /\ outcome.threw /\ outcome.error = "ReferenceError" /\ outcome.value = "h1"

----------------------------------------------------------------------------
(* Properties of calculateReadability (SpecReadability)                    *)

\* C6 as stated: the empty text yields score 0 and level "No content"; a
\* non-empty text yields a score that is neither NaN nor negative
C6_ReadabilityIsNumber ==
    call = "calculateReadability" =>
        /\ textInput = EmptyString =>
              outcome.value = [score |-> Num(0, 1), level |-> "No content"]
        /\ textInput # EmptyString =>
              ~outcome.value.score.nan /\ outcome.value.score.num >= 0

\* C6, the failing case: a text that is not blank and holds no word after its
\* tags are replaced scores NaN
C6_NaNScore ==
    /\ call = "calculateReadability"
    /\ Len(trim(textInput)) > 0
    /\ outcome.value.score.nan
    /\ outcome.value.level = "Very Difficult"

----------------------------------------------------------------------------
(* Properties of findDuplicates (SpecDuplicates)                           *)

GroupsLabelled(result, prefix) == SelectSeq(result, LAMBDA e : StartsWith(e.key, prefix))
TitleGroups(result) == GroupsLabelled(result, <<"D","u","p","l","i","c","a","t","e"," ","t","i","t","l","e",":"," ","\"">>)
DescriptionGroups(result) == GroupsLabelled(result, <<"D","u","p","l","i","c","a","t","e"," ","d","e","s","c","r","i","p","t","i","o","n",":"," ","\"">>)

\* equal after trimming and lowercasing
SameNormalized(a, b) == trim(toLowerCase(a)) = trim(toLowerCase(b))

\* the zero-based positions of the input
Positions == 0..(Len(metadataList) - 1)
TitleAt(i) == metadataList[i + 1].title
DescriptionAt(i) == metadataList[i + 1].description

Grouped(groups, i, j) ==
    \E g \in DOMAIN groups : i \in Range(groups[g].value) /\ j \in Range(groups[g].value)

\* each group has more than one page and lists input positions in
\* increasing order
WellFormed(groups) ==
    \A g \in DOMAIN groups :
        /\ Len(groups[g].value) > 1
        /\ \A q \in DOMAIN groups[g].value : groups[g].value[q] \in Positions
        /\ \A q \in 1..(Len(groups[g].value) - 1) :
               groups[g].value[q] < groups[g].value[q + 1]

HomeSpellings == { <<"H","o","m","e"," ","|"," ","E","x","a","m","p","l","e">>, <<" "," ","H","O","M","E"," ","|"," ","e","x","a","m","p","l","e"," ">> }

\* two pages titled "Home | Example" in some case and whitespace yield one
\* title group with indices [0, 1]
HomeExample ==
    (Len(metadataList) = 2 /\ TitleAt(0) \in HomeSpellings /\ TitleAt(1) \in HomeSpellings) =>
        /\ Len(TitleGroups(outcome.value)) = 1
        /\ TitleGroups(outcome.value)[1].value = <<0, 1>>

\* C7 as stated: two pages are in the same title group exactly when their
\* titles are equal after trimming and lowercasing; groups have more than one
\* page and list input positions in increasing order
C7_SameTitleSameGroup ==
    Ran("findDuplicates") =>
        /\ \A i, j \in Positions :
               i < j => (Grouped(TitleGroups(outcome.value), i, j)
                            <=> SameNormalized(TitleAt(i), TitleAt(j)))
        /\ WellFormed(TitleGroups(outcome.value))
        /\ HomeExample

\* C7, amended: two pages are in the same title group exactly when their
\* titles are both non-empty and equal after trimming and lowercasing (a
\* page without a title is in no group); groups have more than one page and
\* list input positions in increasing order
C7_SameNonEmptyTitleSameGroup ==
    Ran("findDuplicates") =>
        /\ \A i, j \in Positions :
               i < j => (Grouped(TitleGroups(outcome.value), i, j)
                            <=> /\ TitleAt(i) # EmptyString
                                /\ TitleAt(j) # EmptyString
                                /\ SameNormalized(TitleAt(i), TitleAt(j)))
        /\ WellFormed(TitleGroups(outcome.value))
        /\ HomeExample

\* C7 witness: the two spellings of "Home | Example", in this order, between
\* two pages without a title, have been grouped as [1, 2]
C7_HomeExampleGrouped ==
    /\ Ran("findDuplicates")
    /\ Len(metadataList) = 4
    /\ TitleAt(0) = EmptyString /\ TitleAt(3) = EmptyString
    /\ TitleAt(1) = <<"H","o","m","e"," ","|"," ","E","x","a","m","p","l","e">> /\ TitleAt(2) = <<" "," ","H","O","M","E"," ","|"," ","e","x","a","m","p","l","e"," ">>
    /\ Len(TitleGroups(outcome.value)) = 1
    /\ TitleGroups(outcome.value)[1].value = <<1, 2>>

\* the positions whose description is non-empty and normalizes as that of i
DescriptionPeers(i) ==
    {j \in Positions : DescriptionAt(j) # EmptyString
                       /\ SameNormalized(DescriptionAt(i), DescriptionAt(j))}

\* C8 as stated: every normalized description shared by more than one page
\* has an entry of its own whose index list is exactly the positions of
\* those pages
C8_EveryDescriptionGroupReported ==
    Ran("findDuplicates") =>
        \A i \in Positions :
            (DescriptionAt(i) # EmptyString /\ Cardinality(DescriptionPeers(i)) > 1) =>
                \E g \in DOMAIN DescriptionGroups(outcome.value) :
                    Range(DescriptionGroups(outcome.value)[g].value) = DescriptionPeers(i)

\* C8, the failing case: two descriptions that agree on their first 50
\* characters are each shared by two pages, and one entry is returned for both
C8_GroupOverwritten ==
    /\ Ran("findDuplicates")
    /\ Len(metadataList) = 4
    /\ DescriptionPeers(0) = {0, 1} /\ DescriptionPeers(2) = {2, 3}
    /\ Len(DescriptionGroups(outcome.value)) = 1
    /\ DescriptionGroups(outcome.value)[1].value = <<2, 3>>

----------------------------------------------------------------------------
(* Properties of the keyword-stuffing flag (SpecDensity)                   *)

\* C9: on a page of n words of which k are the primary keyword, the density
\* is 100 * k / n and keywordStuffing is true exactly when it exceeds 3: false
\* for 3 in 100, true for 4 in 100; without a keyword the flag is false
C9_StuffingIffAbove3 ==
    Ran("analyzeKeywords") =>
        \A k \in 0..MaxOccurrences, n \in MinWords..MaxWords, place \in Placements :
            metadata = DensityPage(k, n, place) =>
                /\ outcome.value.keywordStuffing = (100 * k > 3 * n)
                /\ k = 0 => outcome.value.keywordDensity = << >>
                /\ k > 0 =>
                      /\ outcome.value.primaryKeyword = <<"w","i","d","g","e","t">>
                      /\ outcome.value.keywordDensity[1].density.num * n
                            = 100 * k * outcome.value.keywordDensity[1].density.den

\* C9 witness: the keyword 3 times in 100 words has been analysed: density
\* exactly 3, no stuffing
C9_ThreeInHundred ==
    /\ Ran("analyzeKeywords")
    /\ metadata = DensityPage(3, 100, "description")
    /\ outcome.value.keywordDensity[1].density.num
          = 3 * outcome.value.keywordDensity[1].density.den
    /\ ~outcome.value.keywordStuffing

----------------------------------------------------------------------------
(* Properties of generateSEOReport (SpecReport)                            *)

\* C10: totalPages is the length of the input, the report has one page entry
\* per input page in input order, and each entry's url is the input page's
\* url, character for character
C10_ReportKeepsPages ==
    Ran("generateSEOReport") =>
        /\ outcome.value.totalPages = Len(metadataList)
        /\ Len(outcome.value.pages) = Len(metadataList)
        /\ \A i \in 1..Len(metadataList) :
               outcome.value.pages[i].url = metadataList[i].url

\* C10 witness: a report over three pages whose urls are a url with outer
\* blanks and capitals, no url, and a plain url
C10_ThreePagesReported ==
    /\ Ran("generateSEOReport")
    /\ Len(metadataList) = 3
    /\ metadataList[1].url = <<" ","H","T","T","P","S",":","/","/","E","x","a","m","p","l","e",".","c","o","m","/","A","_","b"," ">>
    /\ metadataList[2].url = EmptyString
    /\ metadataList[3].url = GoodUrl
    /\ outcome.value.totalPages = 3

\* C14: when the url does not parse, analyzeTechnicalSEO returns; its
\* urlStructure has score 0, the single issue "Invalid URL format" and
\* hasKeywords, hasHyphens, hasNumbers all false; an overallScore and
\* suggestions are returned as well
C14_InvalidUrlDegrades ==
    (call = "analyzeTechnicalSEO" /\ ~ParseURL(metadata.url).ok) =>
        /\ ~outcome.threw
        /\ outcome.value.urlStructure.score = 0
        /\ outcome.value.urlStructure.issues = << <<"I","n","v","a","l","i","d"," ","U","R","L"," ","f","o","r","m","a","t">> >>
        /\ ~outcome.value.urlStructure.hasKeywords
        /\ ~outcome.value.urlStructure.hasHyphens
        /\ ~outcome.value.urlStructure.hasNumbers
        /\ outcome.value.overallScore
              = (IF outcome.value.canonicalUrl.present THEN 30 ELSE 10)
        /\ <<"O","p","t","i","m","i","z","e"," ","U","R","L"," ","s","t","r","u","c","t","u","r","e",":"," ","I","n","v","a","l","i","d"," ","U","R","L"," ","f","o","r","m","a","t">>
              \in Range(outcome.value.suggestions)

\* C14 witness: analyzeTechnicalSEO has run on a page whose url has no
\* scheme and whose path holds a hyphenated keyword, with a canonical
C14_SchemelessUrlAnalyzed ==
    /\ Ran("analyzeTechnicalSEO")
    /\ metadata.url = <<"e","x","a","m","p","l","e",".","c","o","m","/","s","e","o","-","g","u","i","d","e">>
    /\ outcome.value.canonicalUrl.present
    /\ outcome.value.overallScore = 30
    /\ Len(outcome.value.suggestions) = 3

\* the status of the checklist item of this id, as a set: one status when
\* the checklist holds the item once
StatusOf(checklist, id) ==
    {checklist.items[k].status : k \in {j \in DOMAIN checklist.items : checklist.items[j].id = id}}

\* C19: in every checklist the schema-markup item and the mobile-viewport
\* item have status warning, never fail and never pass
C19_SchemaAndViewportWarn ==
    Ran("generateSEOChecklist") =>
        /\ StatusOf(outcome.value, "schema-markup") = {"warning"}
        /\ StatusOf(outcome.value, "mobile-viewport") = {"warning"}
        /\ Cardinality({k \in DOMAIN outcome.value.items :
                           outcome.value.items[k].id \in {"schema-markup", "mobile-viewport"}}) = 2

\* C19 witness: the checklist of a complete record, whose title,
\* description, h1, canonical and Open Graph items pass, holds the two
\* warnings
C19_CompletePageWarned ==
    /\ Ran("generateSEOChecklist")
    /\ Complete(metadata)
    /\ StatusOf(outcome.value, "title-present") = {"pass"}
    /\ StatusOf(outcome.value, "schema-markup") = {"warning"}
    /\ StatusOf(outcome.value, "mobile-viewport") = {"warning"}

\* the sum of analyzeSEO(page).score over the input pages
ScoreTotal == Sum([i \in 1..Len(metadataList) |-> analyzeSEO(metadataList[i]).score])

\* every pages[i].score is the score of the page's checklist
PageScoresAreChecklistScores ==
    \A i \in 1..Len(metadataList) :
        outcome.value.pages[i].score = generateSEOChecklist(metadataList[i]).score

\* C11 as stated: summary.averageScore is the mean of analyzeSEO(page).score
\* over the input pages, and each pages[i].score is the checklist score
C11_AverageIsMean ==
    (Ran("generateSEOReport") /\ Len(metadataList) > 0) =>
        /\ ~outcome.value.summary.averageScore.nan
        /\ outcome.value.summary.averageScore.num * Len(metadataList)
               = ScoreTotal * outcome.value.summary.averageScore.den
        /\ PageScoresAreChecklistScores

\* C11, amended: summary.averageScore is the mean of analyzeSEO(page).score
\* rounded to the nearest integer, halves upwards, and NaN when there is no
\* page; each pages[i].score is the checklist score
C11_AverageIsRoundedMean ==
    Ran("generateSEOReport") =>
        /\ Len(metadataList) = 0 => outcome.value.summary.averageScore.nan
        /\ Len(metadataList) > 0 =>
               /\ ~outcome.value.summary.averageScore.nan
               /\ outcome.value.summary.averageScore.den = 1
               /\ 2 * ScoreTotal - Len(metadataList)
                      < 2 * Len(metadataList) * outcome.value.summary.averageScore.num
               /\ 2 * Len(metadataList) * outcome.value.summary.averageScore.num
                      <= 2 * ScoreTotal + Len(metadataList)
        /\ PageScoresAreChecklistScores

\* C11 witness: a report over two pages whose analyzeSEO scores have a mean
\* that is not an integer, the first page's checklist score differing from
\* its analyzeSEO score
C11_HalfPointMean ==
    /\ Ran("generateSEOReport")
    /\ Len(metadataList) = 2
    /\ ScoreTotal % 2 = 1
    /\ outcome.value.summary.averageScore.num * 2 = ScoreTotal + 1
    /\ outcome.value.pages[1].score # analyzeSEO(metadataList[1]).score

\* the suggestion holds the literal text Add or the literal text Missing
NamesAddOrMissing(sug) == includes(sug, <<"A","d","d">>) \/ includes(sug, <<"M","i","s","s","i","n","g">>)

TechnicalSuggestions(i) == Range(analyzeTechnicalSEO(metadataList[i]).suggestions)

\* C12 as stated: in every page entry a technical suggestion is among the
\* issues, and among the recommendations, exactly when its text holds Add or
\* Missing
C12_FilteredInBothLists ==
    Ran("generateSEOReport") =>
        \A i \in 1..Len(metadataList) : \A sug \in TechnicalSuggestions(i) :
            /\ sug \in Range(outcome.value.pages[i].issues) <=> NamesAddOrMissing(sug)
            /\ sug \in Range(outcome.value.pages[i].recommendations) <=> NamesAddOrMissing(sug)

\* C12, amended: a technical suggestion is among the issues exactly when its
\* text holds Add or Missing; every technical suggestion, whatever its
\* text, is among the recommendations
C12_FilteredInIssuesOnly ==
    Ran("generateSEOReport") =>
        \A i \in 1..Len(metadataList) : \A sug \in TechnicalSuggestions(i) :
            /\ sug \in Range(outcome.value.pages[i].issues) <=> NamesAddOrMissing(sug)
            /\ sug \in Range(outcome.value.pages[i].recommendations)

\* C12 witness: a page entry whose technical suggestions hold one about the
\* URL structure, kept out of the issues and present in the recommendations,
\* and one that starts with Add, present in both
C12_UrlSuggestionRecommended ==
    /\ Ran("generateSEOReport")
    /\ Len(metadataList) = 1
    /\ \E sug \in TechnicalSuggestions(1) :
           /\ StartsWith(sug, <<"O","p","t","i","m","i","z","e"," ","U","R","L"," ","s","t","r","u","c","t","u","r","e",":"," ">>)
           /\ ~NamesAddOrMissing(sug)
           /\ sug \notin Range(outcome.value.pages[1].issues)
           /\ sug \in Range(outcome.value.pages[1].recommendations)
    /\ \E sug \in TechnicalSuggestions(1) :
           /\ StartsWith(sug, <<"A","d","d">>)
           /\ sug \in Range(outcome.value.pages[1].issues)
           /\ sug \in Range(outcome.value.pages[1].recommendations)

----------------------------------------------------------------------------
(* Properties of the renderers (SpecExport)                                *)

Rendered == call \in {"exportReportAsHTML", "exportReportAsText"} /\ ~outcome.threw

\* the names the renderer that ran gives to its sections and page blocks
SummaryPart == IF call = "exportReportAsHTML" THEN "summary" ELSE "SUMMARY"
DuplicatePart == IF call = "exportReportAsHTML" THEN "duplicates" ELSE "DUPLICATE CONTENT"
PagesPart == IF call = "exportReportAsHTML" THEN "Page-by-Page Analysis"
             ELSE "PAGE-BY-PAGE ANALYSIS"
PageBlock == IF call = "exportReportAsHTML" THEN "page-card" ELSE "Page"

\* the positions of the rendering that hold a part of this name
PartsNamed(name) == {k \in 1..Len(outcome.value) : outcome.value[k].part = name}

\* the pages and duplicates of the report that was rendered
RenderedReport == generateSEOReport(metadataList, CHOOSE now \in Instants : TRUE)

\* the sections of a rendering of the report are in order, Duplicate Content
\* being there exactly when the report has duplicates, and the page blocks
\* follow, one per report page, in the order of report.pages
SectionsInOrder(report) ==
    /\ Cardinality(PartsNamed(SummaryPart)) = 1
    /\ Cardinality(PartsNamed(PagesPart)) = 1
    /\ Cardinality(PartsNamed(DuplicatePart)) = (IF Len(report.duplicates) > 0 THEN 1 ELSE 0)
    /\ \A s \in PartsNamed(SummaryPart) : \A d \in PartsNamed(DuplicatePart) : s < d
    /\ \A d \in PartsNamed(DuplicatePart) : \A p \in PartsNamed(PagesPart) : d < p
    /\ \A s \in PartsNamed(SummaryPart) : \A p \in PartsNamed(PagesPart) : s < p
    /\ \A p \in PartsNamed(PagesPart) :
          /\ PartsNamed(PageBlock) = (p + 1)..(p + Len(report.pages))
          /\ Len(outcome.value) = p + Len(report.pages)
          /\ \A k \in 1..Len(report.pages) :
                /\ outcome.value[p + k].url = report.pages[k].url
                /\ outcome.value[p + k].score = report.pages[k].score

\* C13: both renderers write Summary, then Duplicate Content, then
\* Page-by-Page Analysis; Duplicate Content is written exactly when
\* report.duplicates is not empty; the page blocks follow, one per report
\* page, in the order of report.pages
C13_SectionsInOrder == Rendered => SectionsInOrder(RenderedReport)

\* C13 witness: the text rendering of a report with a duplicate group and
\* three pages of different urls, and no duplicate section left out
C13_TextWithDuplicates ==
    /\ call = "exportReportAsText" /\ ~outcome.threw
    /\ Len(metadataList) = 3
    /\ metadataList[1].url # metadataList[2].url
    /\ metadataList[2].url # metadataList[3].url
    /\ PartsNamed("DUPLICATE CONTENT") = {3}
    /\ PartsNamed("Page") = {5, 6, 7}

----------------------------------------------------------------------------
(* Properties of extractMetadataBatch (SpecBatch)                          *)

\* the events of one kind, in the order they happened
EventsOf(kind) == SelectSeq(batch.events, LAMBDA e : e.kind = kind)

\* the position in the history of the only event of this kind and index
EventAt(kind, index) ==
    CHOOSE p \in 1..Len(batch.events) :
        batch.events[p].kind = kind /\ batch.events[p].index = index

\* every url is attempted once and in input order, and its record is pushed
\* before the next url is attempted; record k holds urls[k]; a failed
\* extraction leaves the all-empty record of its url, the records before it
\* staying as they were pushed
RecordsInOrder ==
    /\ Len(batch.results) <= Len(batch.urls)
    /\ Len(EventsOf("attempt")) \in {Len(batch.results), Len(batch.results) + 1}
    /\ Len(EventsOf("record")) = Len(batch.results)
    /\ \A k \in 1..Len(EventsOf("attempt")) : EventsOf("attempt")[k].index = k - 1
    /\ \A k \in 1..Len(batch.results) :
          /\ batch.results[k].url = batch.urls[k]
          /\ EventsOf("record")[k].index = k - 1
          /\ EventsOf("record")[k].pushed = batch.results[k]
          /\ EventAt("attempt", k - 1) < EventAt("record", k - 1)
          /\ EventsOf("record")[k].failed =>
                 /\ \A f \in DOMAIN batch.results[k] \ {"url"} :
                        batch.results[k][f] = EmptyString
          /\ (k < Len(EventsOf("attempt"))) =>
                 EventAt("record", k - 1) < EventAt("attempt", k)

\* with a callback, the calls made so far are current = 1, 2, ... with
\* total = N, call k coming after record k is pushed and before url k + 1 is
\* attempted
ProgressInOrder ==
    batch.onProgress =>
        /\ Len(batch.progress) \in {Len(batch.results) - 1, Len(batch.results)}
        /\ Len(EventsOf("progress")) = Len(batch.progress)
        /\ \A k \in 1..Len(batch.progress) :
              /\ batch.progress[k] = [current |-> k, total |-> Len(batch.urls)]
              /\ EventsOf("progress")[k].index = k
              /\ EventAt("record", k - 1) < EventAt("progress", k)
              /\ (k < Len(EventsOf("attempt"))) =>
                     EventAt("progress", k) < EventAt("attempt", k)

\* C15: extractMetadataBatch resolves with N records, record i for urls[i];
\* a failed extraction gives the all-empty record of its url and touches
\* nothing else; onProgress is called N times with current = 1..N, call i
\* after record i and before the attempt of url i + 1
C15_BatchInOrder ==
    /\ batch.pc # "idle" => RecordsInOrder /\ ProgressInOrder
    /\ call = "extractMetadataBatch" =>
          /\ ~outcome.threw
          /\ Len(outcome.value) = Len(batch.urls)
          /\ outcome.value = batch.results
          /\ \A k \in 1..Len(batch.urls) : outcome.value[k].url = batch.urls[k]
          /\ batch.onProgress => Len(batch.progress) = Len(batch.urls)

\* C15 witness: a batch of three urls has resolved, the second extraction
\* having failed between two that succeeded, with three progress calls
C15_MiddleUrlFailed ==
    /\ Ran("extractMetadataBatch")
    /\ Len(batch.urls) = 3
    /\ batch.onProgress
    /\ Len(batch.progress) = 3
    /\ outcome.value[1].title # EmptyString
    /\ EventsOf("record")[2].failed
    /\ outcome.value[2].title = EmptyString
    /\ outcome.value[3].title # EmptyString

----------------------------------------------------------------------------
(* Properties of the Metadata Analyzer page (SpecPage)                     *)

\* the fields whose entered value is non-empty after trimming
EnteredFields(entered) == {f \in DOMAIN entered : trim(entered[f]) # EmptyString}

\* every index a row can have, before or after the step
RowIndices == 0..(Max(Len(metadataList), Len(metadataList')) - 1)

\* C16: a bulk edit sets, on every selected row, exactly the fields whose
\* entered value is non-empty after trimming, to the trimmed value; every
\* other field of a selected row and every field of an unselected row is
\* kept; with nothing entered no row changes
C16_BulkEditFrame ==
    [][call' = "handleApply" =>
          /\ \A index \in RowIndices : \A f \in AllFields :
                Field(metadataList', index, f) =
                    IF index \in selectedRows /\ f \in EnteredFields(outcome'.value)
                    THEN trim(outcome'.value[f])
                    ELSE Field(metadataList, index, f)
          /\ EnteredFields(outcome'.value) = {} =>
                metadataList' = metadataList /\ selectedRows' = selectedRows]_vars

\* C16 witness: a bulk edit with a padded title and a blank description has
\* been applied to three rows of which the second one was not selected: the
\* first and third hold the trimmed title and their own description and url,
\* the second is as it was imported
C16_TitleAppliedToTwoRows ==
    /\ call = "handleApply"
    /\ outcome.value.title = <<" ","N","e","w"," ">>
    /\ outcome.value.description = <<" "," ">>
    /\ Len(metadataList) = 3
    /\ metadataList[1].title = <<"N","e","w">>
    /\ metadataList[1].description = <<"C","o","m","p","a","r","e"," ","s","e","o"," ","t","o","o","l","s">>
    /\ metadataList[2] \in PageRows
    /\ metadataList[3].title = <<"N","e","w">>
    /\ metadataList[3].description = EmptyString
    /\ metadataList[3].url = <<"h","t","t","p","s",":","/","/","b",".","e","x","a","m","p","l","e","/","x">>

\* C17 as stated: every selected index is below the length of the array
C17_SelectionValid == \A index \in selectedRows : index \in 0..(Len(metadataList) - 1)

\* C17, the failing case: a CSV import has left a selected index that the
\* imported array has no row for
C17_StaleSelection ==
    /\ call = "handleImportCSV"
    /\ Len(metadataList) = 1
    /\ 2 \in selectedRows

----------------------------------------------------------------------------
(* Properties of the URL structure analysis (SpecPaths)                    *)

IsLetter(c) == c \in LowerSet \cup UpperSet

\* the segment holds 3 or more letters
HasThreeLetters(segment) ==
    Cardinality({k \in 1..Len(segment) : IsLetter(segment[k])}) >= 3

LacksKeywords == <<"U","R","L"," ","p","a","t","h"," ","l","a","c","k","s"," ","d","e","s","c","r","i","p","t","i","v","e"," ","k","e","y","w","o","r","d","s">>

\* C18 as stated: the 15 points for a path that lacks descriptive keywords
\* are deducted exactly when the path is not "/" and no segment of it holds
\* 3 or more letters
C18_ThreeLettersAreKeyword ==
    (Ran("analyzeTechnicalSEO") /\ ParseURL(metadata.url).ok) =>
        (LacksKeywords \in Range(outcome.value.urlStructure.issues)
            <=> /\ ParseURL(metadata.url).pathname # <<"/">>
                /\ \A k \in DOMAIN SplitSlash(ParseURL(metadata.url).pathname) :
                       ~HasThreeLetters(SplitSlash(ParseURL(metadata.url).pathname)[k]))

\* C18, the failing case: the path /sEo, one segment of three letters, has
\* been analysed and the 15 points deducted
C18_ThreeLetterPathPenalised ==
    /\ Ran("analyzeTechnicalSEO")
    /\ metadata.url = <<"h","t","t","p","s",":","/","/","e","x","a","m","p","l","e",".","c","o","m","/","s","E","o">>
    /\ outcome.value.urlStructure.issues = << LacksKeywords >>
    /\ outcome.value.urlStructure.score = 85
    /\ ~outcome.value.urlStructure.hasKeywords

----------------------------------------------------------------------------
(* Properties of the replace patterns (SpecPatterns)                       *)

\* the position of the first "|" of the pattern, Len + 1 if it has none
FirstBar(pattern) == FirstIndex(pattern, LAMBDA c : c = "|")

\* the pattern cut at its first "|" only
BeforeFirstBar(pattern) == SubSeq(pattern, 1, FirstBar(pattern) - 1)
AfterFirstBar(pattern) == SubSeq(pattern, FirstBar(pattern) + 1, Len(pattern))

TargetField == IF call = "Replace in Title" THEN "title" ELSE "description"

\* C20 as stated: the text before the first "|" is replaced, wherever it
\* occurs and whatever its case, by all the text after the first "|",
\* further "|" included; the other fields are returned as they were
C20_SplitOnFirstBar ==
    (call \in {"Replace in Title", "Replace in Description"}
        /\ BeforeFirstBar(textInput) # EmptyString
        /\ AfterFirstBar(textInput) # EmptyString) =>
        /\ ~outcome.threw
        /\ outcome.value[TargetField] =
              ReplaceAll(metadata[TargetField], BeforeFirstBar(textInput),
                         AfterFirstBar(textInput))
        /\ \A f \in DOMAIN metadata \ {TargetField} : outcome.value[f] = metadata[f]

\* C20, the failing case: the pattern s|e|X has been applied to the title
\* "Seo sEe" and every s replaced by e, the text after the second "|" dropped
C20_SecondBarCutsReplacement ==
    /\ call = "Replace in Title" /\ ~outcome.threw
    /\ textInput = <<"s","|","e","|","X">>
    /\ metadata.title = <<"S","e","o"," ","s","E","e">>
    /\ outcome.value.title = <<"e","e","o"," ","e","E","e">>

----------------------------------------------------------------------------
(* analyzeKeywords applied to pages of a few repeated words (SpecKeywords) *)

MaxKeywordWords == 4
KeywordWords == { <<"a","l","f","a">>, <<"b","e","t","a">>, <<"g","a","m","a">> }

\* no title, a title without a token, a title that is a token, a title that
\* contains a token inside a longer word
KeywordTitles == { EmptyString, <<"T","o","p">>, <<"B","e","t","a">>, <<"G","a","m","a","s">> }

\* six further tokens, each once
KeywordHeadings == { EmptyString, <<"t","o","o","l","s"," ","g","u","i","d","e"," ","a","u","d","i","t"," ","l","i","n","k","s"," ","p","a","g","e","s"," ","s","p","e","e","d">> }

KeywordPages ==
    { PageMetadata(EmptyString, title, JoinTruthy(description), EmptyString,
                   EmptyString, EmptyString, EmptyString, h1) :
        title \in KeywordTitles,
        description \in SeqUpTo(KeywordWords, MaxKeywordWords),
        h1 \in KeywordHeadings }

InitKeywords ==
    /\ metadata \in KeywordPages
    /\ metadataList = << >>
    /\ textInput = EmptyString
    /\ call = "none"
    /\ outcome = NoOutcome
    /\ batch = NoBatch
    /\ selectedRows = {}
    /\ selectedRowForAI = NoRow
    /\ loadTime = NoLoadTime
    /\ localStorage = EmptyStorage
    /\ savedResults = NothingSaved

NextKeywords == AnalyzeKeywords

SpecKeywords == InitKeywords /\ [][NextKeywords]_vars

----------------------------------------------------------------------------
(* Properties of the keyword ranking (SpecKeywords)                        *)

\* the tokens of a page: the lower-cased words of its combined text that have
\* at least 4 characters and are no stop words, in text order
KeywordTokens(m) ==
    SelectSeq(Words(trim(toLowerCase(ReplaceNonWord(StripTags(CombinedText(m)))))),
              LAMBDA w : Len(w) >= KeywordMinLength /\ ~isStopWord(w))

FirstPosition(ws, w) == CHOOSE i \in DOMAIN ws : ws[i] = w /\ \A j \in 1..(i - 1) : ws[j] # w

\* a ranks above b: it is more frequent, or as frequent and seen first
RanksAbove(ws, a, b) ==
    \/ Occurrences(ws, a) > Occurrences(ws, b)
    \/ /\ Occurrences(ws, a) = Occurrences(ws, b)
       /\ FirstPosition(ws, a) < FirstPosition(ws, b)

\* the distinct tokens, each at the position given by how many rank above it
Ranked(ws) ==
    [k \in 1..Cardinality(Range(ws)) |->
        CHOOSE w \in Range(ws) :
            Cardinality({u \in Range(ws) : RanksAbove(ws, u, w)}) = k - 1]

\* the result holds the primary and secondary keywords the ranking gives
KeywordsFollowRanking(ranked, title, result) ==
    LET inTitle == {k \in DOMAIN ranked : includes(toLowerCase(title), ranked[k])}
        primary == IF ranked = << >> THEN Undefined
                   ELSE IF inTitle = {} THEN ranked[1]
                   ELSE ranked[CHOOSE k \in inTitle : \A j \in inTitle : k <= j]
        rest == SelectSeq(ranked, LAMBDA w : w # primary)
    IN  /\ result.primaryKeyword = primary
        /\ Len(result.secondaryKeywords) <= 5
        /\ \A i \in DOMAIN result.secondaryKeywords :
               result.secondaryKeywords[i] # result.primaryKeyword
        /\ result.secondaryKeywords = SubSeq(rest, 1, Min(5, Len(rest)))

\* C21: the tokens are ranked by descending frequency, ties in first-seen
\* order; the primary keyword is the highest-ranked token contained in the
\* title, or the highest-ranked token when the title contains none;
\* secondaryKeywords are the first 5 of the ranking without the primary, so
\* at most 5 and never the primary
C21_KeywordsRanked ==
    Ran("analyzeKeywords") =>
        KeywordsFollowRanking(Ranked(KeywordTokens(metadata)), metadata.title,
                              outcome.value)

\* C21 witness: a page of nine tokens has been analysed whose most frequent
\* token is not in the title: the primary keyword is the title's token, the
\* most frequent token leads the five secondary keywords, and the tie between
\* the six tokens of the heading is cut after the fourth
C21_PrimaryFromTitle ==
    /\ Ran("analyzeKeywords")
    /\ metadata.title = <<"B","e","t","a">>
    /\ metadata.description = <<"g","a","m","a"," ","a","l","f","a"," ","a","l","f","a"," ","g","a","m","a">>
    /\ metadata.h1 # EmptyString
    /\ outcome.value.primaryKeyword = <<"b","e","t","a">>
    /\ outcome.value.secondaryKeywords
          = << <<"g","a","m","a">>, <<"a","l","f","a">>, <<"t","o","o","l","s">>, <<"g","u","i","d","e">>, <<"a","u","d","i","t">> >>

----------------------------------------------------------------------------
(* handleRetryFailed with its extraction in flight (page.tsx 165-217)       *)
(*                                                                          *)
(* The handler reads the array, awaits extractMetadataBatch and only then   *)
(* queues its setMetadata updater, which runs on the array of that later    *)
(* moment. batch is the extraction the handler awaits (isExtracting is      *)
(* batch.pc # "idle"); while it runs the table stays editable and the CSV   *)
(* import stays available. The settling step records in outcome.value the   *)
(* array the updater received (before) and the records it was given.        *)

MaxRetryRows == 2

\* rows whose extraction failed, for two urls, and a row that was extracted
RetryRows ==
    { FailedRecord(<<"h","t","t","p","s",":","/","/","a",".","e","x","a","m","p","l","e","/">>),
      FailedRecord(<<"h","t","t","p","s",":","/","/","b",".","e","x","a","m","p","l","e","/","x">>),
      ExtractedRecord(<<"h","t","t","p","s",":","/","/","a",".","e","x","a","m","p","l","e","/">>, TitledPage(<<"S","e","o"," ","t","o","o","l","s">>, EmptyString)) }

RetryLists == SeqUpTo(RetryRows, MaxRetryRows)

\* what the user types into a title cell of the table
EditedTitles == { <<"E","d","i","t","e","d">> }

\* failedUrls (page.tsx 166-169)
FailedUrls(list) ==
    Bind(SelectSeq(list, LAMBDA row : IsEmptyRow(row)), LAMBDA failed :
        Materialize([k \in 1..Len(failed) |-> failed[k].url]))

\* the number of empty rows among the first n rows of list
EmptyRowsUpTo(list, n) == Cardinality({k \in 1..n : IsEmptyRow(list[k])})

\* the setMetadata updater of handleRetryFailed (page.tsx 186-198): the k-th
\* row that is empty when the updater runs takes the k-th extracted record
RetryUpdated(prev, extracted) ==
    [index \in 1..Len(prev) |->
        IF IsEmptyRow(prev[index]) /\ EmptyRowsUpTo(prev, index) <= Len(extracted)
        THEN extracted[EmptyRowsUpTo(prev, index)]
        ELSE prev[index]]

\* page.tsx 165-181: the button is shown when some row has neither title
\* nor description and is disabled while an extraction runs (274-279);
\* without a failed url the handler returns at line 173, otherwise it
\* starts the extraction of the failed urls and awaits it
RetryStarts ==
    /\ batch.pc = "idle"
    /\ Len(metadataList) > 0
    /\ \E k \in 1..Len(metadataList) :
           ~Truthy(metadataList[k].title) /\ ~Truthy(metadataList[k].description)
    /\ IF FailedUrls(metadataList) = << >>
       THEN /\ call' = "handleRetryFailed: nothing to retry"
            /\ UNCHANGED batch
       ELSE /\ call' = "handleRetryFailed: await extractMetadataBatch"
            /\ batch' = [NoBatch EXCEPT !.pc = "loop", !.urls = FailedUrls(metadataList),
                                        !.onProgress = TRUE]
    /\ outcome' = Returned([failedUrls |-> FailedUrls(metadataList)])
    /\ UNCHANGED <<metadata, metadataList, textInput, selectedRows,
                   selectedRowForAI, loadTime, localStorage, savedResults>>

\* page.tsx 181-217: extractMetadataBatch has returned; the updater runs on
\* the array as it is now, and isExtracting is reset
RetrySettles ==
    /\ batch.pc = "done"
    /\ call' = "handleRetryFailed"
    /\ outcome' = Returned([before |-> metadataList, extracted |-> batch.results])
    /\ metadataList' = RetryUpdated(metadataList, batch.results)
    /\ batch' = NoBatch
    /\ UNCHANGED <<metadata, textInput, selectedRows,
                   selectedRowForAI, loadTime, localStorage, savedResults>>

\* page.tsx 97-103, called by the table when a title cell loses the focus
\* (MetadataTable, handleCellBlur)
HandleUpdateMetadata ==
    \E index \in 0..(Len(metadataList) - 1) : \E value \in EditedTitles :
        /\ call' = "handleUpdateMetadata"
        /\ outcome' = Returned([index |-> index, field |-> "title", value |-> value])
        /\ metadataList' = ArraySet(metadataList, index,
                                    Merge(metadataList[index + 1], [title |-> value]))
        /\ UNCHANGED <<metadata, textInput, batch, selectedRows,
                       selectedRowForAI, loadTime, localStorage, savedResults>>

\* page.tsx 150-163: the imported rows replace the array
HandleImportRetryCSV ==
    /\ Len(metadataList) > 0
    /\ \E imported \in RetryLists :
           /\ call' = "handleImportCSV"
           /\ outcome' = Returned(imported)
           /\ metadataList' = imported
           /\ UNCHANGED <<metadata, textInput, batch, selectedRows,
                          selectedRowForAI, loadTime, localStorage, savedResults>>

InitRetry ==
    /\ metadataList \in RetryLists
    /\ selectedRows = {}
    /\ selectedRowForAI = NoRow
    /\ loadTime = NoLoadTime
    /\ localStorage = EmptyStorage
    /\ savedResults = NothingSaved
    /\ metadata = NoPage
    /\ textInput = EmptyString
    /\ call = "none"
    /\ outcome = NoOutcome
    /\ batch = NoBatch

NextRetry ==
    \/ RetryStarts
    \/ BatchLoop
    \/ ExtractMetadataResolves
    \/ ExtractMetadataRejects
    \/ ReportProgress
    \/ BatchDelay
    \/ RetrySettles
    \/ HandleUpdateMetadata
    \/ HandleImportRetryCSV

SpecRetry == InitRetry /\ [][NextRetry]_vars

----------------------------------------------------------------------------
(* Properties of the retry (SpecRetry)                                     *)

RetrySettled == call = "handleRetryFailed" /\ ~outcome.threw

\* C22: a retry replaces only rows that were empty, changes no row's url and
\* not the number of rows, whatever the user edited or imported while the
\* extraction ran: each retried record is on the row whose url it was
\* fetched for
C22_RetryInPlace ==
    RetrySettled =>
        /\ Len(metadataList) = Len(outcome.value.before)
        /\ \A k \in 1..Len(metadataList) :
               /\ metadataList[k].url = outcome.value.before[k].url
               /\ metadataList[k] # outcome.value.before[k] =>
                      IsEmptyRow(outcome.value.before[k])

\* C22 witness: both rows had failed, the user typed a title into the first
\* one while the retry ran, and the record fetched for the first url is now
\* on the second row
C22_RecordOnWrongRow ==
    /\ RetrySettled
    /\ Len(metadataList) = 2
    /\ outcome.value.before[1].title = <<"E","d","i","t","e","d">>
    /\ outcome.value.before[2].url = <<"h","t","t","p","s",":","/","/","b",".","e","x","a","m","p","l","e","/","x">>
    /\ outcome.value.extracted[1].url = <<"h","t","t","p","s",":","/","/","a",".","e","x","a","m","p","l","e","/">>
    /\ metadataList[2] = outcome.value.extracted[1]

----------------------------------------------------------------------------
(* Further properties of the Metadata Analyzer page (SpecPage)             *)

\* the row at position k of list has a url
HasUrl(list, k) == k \in 1..Len(list) /\ "url" \in DOMAIN list[k]

\* C23: a bulk update only modifies existing rows: it keeps the length of
\* the array and leaves no row without a url that had one or was not there
C23_BulkUpdateKeepsRows ==
    [][call' = "handleApply" =>
          /\ Len(metadataList') = Len(metadataList)
          /\ \A k \in 1..Len(metadataList') :
                 HasUrl(metadataList', k) \/ (k <= Len(metadataList) /\ ~HasUrl(metadataList, k))]_vars

\* C23, the failing case: a bulk edit applied with the third row selected to
\* an array of one row has lengthened it to three: a hole at the second
\* position and a third row that holds the entered title and nothing else
C23_RowWithoutUrl ==
    /\ call = "handleApply"
    /\ Len(metadataList) = 3
    /\ metadataList[1] \in PageRows
    /\ IsHole(metadataList[2])
    /\ DOMAIN metadataList[3] = {"title"}
    /\ metadataList[3].title = <<"N","e","w">>

----------------------------------------------------------------------------
(* calculatePerformanceScore: src/unnamed/part_008, lines 307-316           *)
(*                                                                          *)
(* loadTime is performance.now() - startTime (line 40), a number of         *)
(* milliseconds with a fraction: the exact quotient num / den               *)

\* Math.round(x / k) for a number x that is not NaN
RoundQuotient(x, k) == RoundDiv(x.num, k * x.den)

calculatePerformanceScore(t) ==
    IF NumLT(t, 1000) THEN 100
    ELSE IF NumLT(t, 2000) THEN 90
    ELSE IF NumLT(t, 3000) THEN 75
    ELSE IF NumLT(t, 4000) THEN 60
    ELSE IF NumLT(t, 5000) THEN 45
    ELSE Max(30, 100 - RoundQuotient(t, 100))

CalculatePerformanceScore ==
    Invoke("calculatePerformanceScore", Returned(calculatePerformanceScore(loadTime)))

\* load times up to MaxLoadTime milliseconds, in half milliseconds: every
\* multiple of 25 ms and the half millisecond before it
MaxLoadTime == 7100
LoadTimes ==
    { Num(n, 2) : n \in {h \in 0..(2 * MaxLoadTime) : h % 50 \in {0, 49}} }

InitPerformance ==
    /\ loadTime \in LoadTimes
    /\ metadata = NoPage
    /\ metadataList = << >>
    /\ textInput = EmptyString
    /\ call = "none"
    /\ outcome = NoOutcome
    /\ batch = NoBatch
    /\ selectedRows = {}
    /\ selectedRowForAI = NoRow
    /\ localStorage = EmptyStorage
    /\ savedResults = NothingSaved

NextPerformance == CalculatePerformanceScore

SpecPerformance == InitPerformance /\ [][NextPerformance]_vars

----------------------------------------------------------------------------
(* Properties of calculatePerformanceScore (SpecPerformance)               *)

\* the documented table (part_008, line 309)
DocumentedScore(t) ==
    IF NumLT(t, 1000) THEN 100
    ELSE IF NumLT(t, 2000) THEN 90
    ELSE IF NumLT(t, 3000) THEN 75
    ELSE IF NumLT(t, 4000) THEN 60
    ELSE IF NumLT(t, 5000) THEN 45
    ELSE 30

\* a is a shorter time than b
Shorter(a, b) == a.num * b.den < b.num * a.den

\* C25: the score follows the table (< 1s = 100, < 2s = 90, < 3s = 75,
\* < 4s = 60, < 5s = 45, >= 5s = 30) and no shorter load time has a lower
\* score
C25_ScoreFollowsTable ==
    Ran("calculatePerformanceScore") =>
        /\ outcome.value = DocumentedScore(loadTime)
        /\ \A t \in LoadTimes :
               Shorter(t, loadTime) => calculatePerformanceScore(t) >= outcome.value

\* C25, the failing case: a load time of exactly 5 seconds has been scored
\* 50, above the 45 of the half millisecond before it
C25_FiveSecondsScore50 ==
    /\ Ran("calculatePerformanceScore")
    /\ loadTime = Num(10000, 2)
    /\ outcome.value = 50
    /\ calculatePerformanceScore(Num(9999, 2)) = 45

----------------------------------------------------------------------------
(* Lighthouse history in localStorage: src/lib/storage.ts, lines 68-107     *)
(*                                                                          *)
(* localStorage maps a key to the string stored under it. A JSON text is    *)
(* modelled by the value it denotes: JSON.stringify turns a number that is  *)
(* NaN into null, and JSON.parse throws on a string that is no JSON text.   *)

LIGHTHOUSE_STORAGE_PREFIX == <<"s","e","o","-","l","i","g","h","t","h","o","u","s","e","-">>

\* "Keep only last 50 results per URL" (line 86)
MaxHistoryResults == 50

LighthouseKey(url) == LIGHTHOUSE_STORAGE_PREFIX \o url

\* localStorage.getItem(key) !== null
HasItem(storage, key) == key \in DOMAIN storage

\* localStorage.setItem(key, text)
SetItem(storage, key, text) ==
    [k \in DOMAIN storage \cup {key} |-> IF k = key THEN text ELSE storage[k]]

JSONNull == [null |-> TRUE]

\* the JSON value of a number
JSONNumber(x) == IF x.nan THEN JSONNull ELSE x

\* the JSON value of a LighthouseResult
JSONResult(result) ==
    [result EXCEPT !.metrics = [m \in DOMAIN result.metrics |-> JSONNumber(result.metrics[m])]]

\* JSON.stringify(history)
JSONStringify(history) ==
    [json |-> [url |-> history.url,
               results |-> [i \in DOMAIN history.results |->
                               JSONResult(history.results[i])]]]

\* JSON.parse(text)
JSONParse(text) ==
    IF "json" \in DOMAIN text THEN Returned(text.json)
    ELSE Thrown("SyntaxError", "JSON.parse")

\* history.results.slice(0, 50)
FirstResults(results) ==
    IF Len(results) > MaxHistoryResults THEN SubSeq(results, 1, MaxHistoryResults)
    ELSE results

\* lines 86-88: history.results.slice(-50) when there are more than 50
LastResults(results) ==
    IF Len(results) > MaxHistoryResults
    THEN SubSeq(results, Len(results) - MaxHistoryResults + 1, Len(results))
    ELSE results

\* lines 70-82: the history read back, or a new one when there is none or
\* when it cannot be parsed
ExistingHistory(storage, url) ==
    IF HasItem(storage, LighthouseKey(url))
         /\ ~JSONParse(storage[LighthouseKey(url)]).threw
    THEN JSONParse(storage[LighthouseKey(url)]).value
    ELSE [url |-> url, results |-> << >>]

\* localStorage after saveLighthouseResult(result)
saveLighthouseResult(storage, result) ==
    Bind(ExistingHistory(storage, result.url), LAMBDA history :
        SetItem(storage, LighthouseKey(result.url),
                JSONStringify([history EXCEPT
                                  !.results = LastResults(Append(history.results, result))])))

\* getLighthouseHistory(url): null without a stored text or when it cannot
\* be parsed
getLighthouseHistory(storage, url) ==
    IF ~HasItem(storage, LighthouseKey(url)) THEN Null
    ELSE IF JSONParse(storage[LighthouseKey(url)]).threw THEN Null
    ELSE JSONParse(storage[LighthouseKey(url)]).value

\* the urls audited
LighthouseUrls == { <<"h","t","t","p","s",":","/","/","a",".","e","x","a","m","p","l","e","/">>, <<"h","t","t","p","s",":","/","/","b",".","e","x","a","m","p","l","e","/","x">> }

\* the number of audits of one url
MaxSaves == 52

\* the result of the k-th audit of url, as runLighthouse returns it
\* (part_008, lines 65-77), fetched in fetchTime = 900 + k milliseconds
AuditResult(url, k) ==
    [url |-> url,
     timestamp |-> k,
     scores |-> [performance |-> calculatePerformanceScore(Num(900 + k, 1)),
                 accessibility |-> 100, bestPractices |-> 100, seo |-> 100],
     metrics |-> [firstContentfulPaint |-> Num(900 + k, 1),
                  largestContentfulPaint |-> Num(3 * (900 + k), 2),
                  totalBlockingTime |-> Num(0, 1),
                  cumulativeLayoutShift |-> Num(0, 1),
                  speedIndex |-> Num(900 + k, 1)],
     recommendations |-> << >>]

\* the results saved so far for url, in save order
SavedFor(url) == IF url \in DOMAIN savedResults THEN savedResults[url] ELSE << >>

SaveLighthouseResult ==
    \E url \in LighthouseUrls :
        /\ Len(SavedFor(url)) < MaxSaves
        /\ Bind(AuditResult(url, Len(SavedFor(url)) + 1), LAMBDA result :
              /\ call' = "saveLighthouseResult"
              /\ outcome' = Returned(result)
              /\ localStorage' = saveLighthouseResult(localStorage, result)
              /\ savedResults' = SetItem(savedResults, url, Append(SavedFor(url), result)))
        /\ UNCHANGED <<metadata, metadataList, textInput, batch, selectedRows,
                       selectedRowForAI, loadTime>>

InitHistory ==
    /\ localStorage = EmptyStorage
    /\ savedResults = NothingSaved
    /\ metadata = NoPage
    /\ metadataList = << >>
    /\ textInput = EmptyString
    /\ call = "none"
    /\ outcome = NoOutcome
    /\ batch = NoBatch
    /\ selectedRows = {}
    /\ selectedRowForAI = NoRow
    /\ loadTime = NoLoadTime

NextHistory == SaveLighthouseResult

SpecHistory == InitHistory /\ [][NextHistory]_vars

----------------------------------------------------------------------------
(* Properties of the Lighthouse history (SpecHistory)                      *)

\* the last n elements of s, or all of s when it has fewer
LastOf(s, n) == [i \in 1..Min(n, Len(s)) |-> s[Len(s) - Min(n, Len(s)) + i]]

\* the stored history of url holds the most recent results saved for it
HoldsMostRecent(url, history) ==
    IF SavedFor(url) = << >> THEN history = Null
    ELSE /\ history.url = url
         /\ Len(history.results) <= 50
         /\ history.results = LastOf(SavedFor(url), 50)

\* C24: after any sequence of saves the stored history of each url holds at
\* most 50 results, exactly the most recent results saved for that url in
\* save order, and a save for one url leaves the stored history of every
\* other url as it was
C24_HistoryKeepsLast50 ==
    /\ [](\A url \in LighthouseUrls :
              HoldsMostRecent(url, getLighthouseHistory(localStorage, url)))
    /\ [][call' = "saveLighthouseResult" =>
              \A url \in LighthouseUrls \ {outcome'.value.url} :
                  getLighthouseHistory(localStorage', url)
                      = getLighthouseHistory(localStorage, url)]_vars

\* C24 witness: 52 results have been saved for one url and 3 for the other:
\* the first history holds the 50 results from the third to the last one,
\* the second history holds its 3 results
C24_OldestDropped ==
    /\ call = "saveLighthouseResult"
    /\ Len(SavedFor(<<"h","t","t","p","s",":","/","/","a",".","e","x","a","m","p","l","e","/">>)) = 52
    /\ Len(SavedFor(<<"h","t","t","p","s",":","/","/","b",".","e","x","a","m","p","l","e","/","x">>)) = 3
    /\ Len(getLighthouseHistory(localStorage, <<"h","t","t","p","s",":","/","/","a",".","e","x","a","m","p","l","e","/">>).results) = 50
    /\ getLighthouseHistory(localStorage, <<"h","t","t","p","s",":","/","/","a",".","e","x","a","m","p","l","e","/">>).results[1].timestamp = 3
    /\ getLighthouseHistory(localStorage, <<"h","t","t","p","s",":","/","/","a",".","e","x","a","m","p","l","e","/">>).results[50].timestamp = 52
    /\ Len(getLighthouseHistory(localStorage, <<"h","t","t","p","s",":","/","/","b",".","e","x","a","m","p","l","e","/","x">>).results) = 3

----------------------------------------------------------------------------
(* Further properties of the per-page entry points (Spec)                  *)

\* the canonical of the page is a string that is not blank
CanonicalGiven(m) == trim(m.canonical) # EmptyString

\* C26: the technical overallScore is the rounded mean of the url score, 100
\* or 0 for the canonical, 50 for the robots placeholder and 0 for schema
\* and viewport, and so lies within 10..50
C26_OverallScoreAtMost50 ==
    Ran("analyzeTechnicalSEO") =>
        /\ outcome.value.overallScore =
              RoundDiv(outcome.value.urlStructure.score
                         + (IF CanonicalGiven(metadata) THEN 100 ELSE 0) + 50 + 0 + 0, 5)
        /\ outcome.value.overallScore \in 10..50

\* C26 witness: a page with a clean url and a canonical has been analysed:
\* the url scores 100 and the overall score is the highest possible, 50
C26_BestPageScores50 ==
    /\ Ran("analyzeTechnicalSEO")
    /\ metadata.url = GoodUrl
    /\ metadata.canonical = GoodUrl
    /\ outcome.value.urlStructure.score = 100
    /\ outcome.value.overallScore = 50

----------------------------------------------------------------------------
(* generateSEOReport applied to pages with and without analyzeSEO issues   *)
(* (SpecSummary)                                                           *)

\* a page analyzeSEO finds nothing wrong with
CompletePage ==
    PageMetadata(GoodUrl, Fill(<<"S","e","o"," ","t","o","o","l","s"," ","g","u","i","d","e"," ">>, 30),
                 Fill(<<"C","o","m","p","a","r","e"," ","t","h","e"," ","b","e","s","t"," ","s","e","o"," ","t","o","o","l","s"," ","f","o","r"," ","s","e","o"," ","t","e","a","m","s","."," ">>, 120),
                 <<"S","e","o"," ","t","o","o","l","s">>, <<"C","o","m","p","a","r","e"," ","s","e","o"," ","t","o","o","l","s">>, <<"h","t","t","p","s",":","/","/","e","x","a","m","p","l","e",".","c","o","m","/","a",".","p","n","g">>,
                 GoodUrl, <<"S","e","o"," ","t","o","o","l","s"," ","g","u","i","d","e">>)

\* the complete page, an empty page, the complete page without its h1
SummaryPages ==
    { CompletePage, NoPage, [CompletePage EXCEPT !.h1 = EmptyString] }

MaxSummaryPages == 3
SummaryLists == SeqUpTo(SummaryPages, MaxSummaryPages)

InitSummary ==
    /\ metadataList \in SummaryLists
    /\ metadata = NoPage
    /\ textInput = EmptyString
    /\ call = "none"
    /\ outcome = NoOutcome
    /\ batch = NoBatch
    /\ selectedRows = {}
    /\ selectedRowForAI = NoRow
    /\ loadTime = NoLoadTime
    /\ localStorage = EmptyStorage
    /\ savedResults = NothingSaved

NextSummary == GenerateSEOReport

SpecSummary == InitSummary /\ [][NextSummary]_vars

----------------------------------------------------------------------------
(* Properties of the report summary (SpecSummary)                          *)

\* the entries of report.pages whose issues list is not empty
PagesListingIssues(report) ==
    {i \in DOMAIN report.pages : report.pages[i].issues # << >>}

\* C27: summary.pagesWithIssues is the number of entries of report.pages
\* whose issues list is not empty
C27_SummaryCountsListedIssues ==
    Ran("generateSEOReport") =>
        outcome.value.summary.pagesWithIssues
            = Cardinality(PagesListingIssues(outcome.value))

\* C27, the failing case: the report of one complete page counts no page
\* with issues and no issue, and lists issues for that page
C27_IssuesListedNotCounted ==
    /\ Ran("generateSEOReport")
    /\ metadataList = << CompletePage >>
    /\ outcome.value.summary.pagesWithIssues = 0
    /\ outcome.value.summary.totalIssues = 0
    /\ <<"A","d","d"," ","s","t","r","u","c","t","u","r","e","d"," ","d","a","t","a"," ","(","J","S","O","N","-","L","D",")"," ","f","o","r"," ","b","e","t","t","e","r"," ","s","e","a","r","c","h"," ","r","e","s","u","l","t"," ","a","p","p","e","a","r","a","n","c","e">>
          \in Range(outcome.value.pages[1].issues)

\* analyzeSEO reports the missing canonical and takes its 5 points: the
\* score is 5 below the score of the same page with a canonical
CanonicalReportedMissing(m) ==
    /\ <<"M","i","s","s","i","n","g"," ","c","a","n","o","n","i","c","a","l"," ","U","R","L">> \in Range(analyzeSEO(m).issues)
    /\ analyzeSEO(m).score = analyzeSEO([m EXCEPT !.canonical = GoodUrl]).score - 5

\* C28: the checklist item 'canonical-url' has status 'fail' exactly when
\* analyzeSEO reports "Missing canonical URL" and deducts 5 points, for
\* every record, a canonical of blanks included
C28_CanonicalChecksAgree ==
    Ran("generateSEOChecklist") =>
        (StatusOf(outcome.value, "canonical-url") = {"fail"})
            <=> CanonicalReportedMissing(metadata)

\* C28, the failing case: the checklist of a page whose canonical is one
\* blank fails the item, and analyzeSEO of that page reports no missing
\* canonical and deducts nothing for it
C28_BlankCanonicalDisagree ==
    /\ Ran("generateSEOChecklist")
    /\ metadata.canonical = <<" ">>
    /\ StatusOf(outcome.value, "canonical-url") = {"fail"}
    /\ <<"M","i","s","s","i","n","g"," ","c","a","n","o","n","i","c","a","l"," ","U","R","L">> \notin Range(analyzeSEO(metadata).issues)
    /\ analyzeSEO(metadata).score = analyzeSEO([metadata EXCEPT !.canonical = GoodUrl]).score

----------------------------------------------------------------------------
(* Further properties of generateSEOReport (SpecReport)                    *)

\* C29: summary.averageScore is a number within 0..100 for every input
\* array, the empty array included
C29_AverageIsAScore ==
    Ran("generateSEOReport") =>
        /\ ~outcome.value.summary.averageScore.nan
        /\ NumGE(outcome.value.summary.averageScore, 0)
        /\ ~NumGE(outcome.value.summary.averageScore, 101)

\* C29, the failing case: the report of the empty array has no page, counts
\* nothing, and its averageScore is NaN
C29_EmptyReportAveragesNaN ==
    /\ Ran("generateSEOReport")
    /\ metadataList = << >>
    /\ outcome.value.totalPages = 0
    /\ outcome.value.pages = << >>
    /\ outcome.value.summary.averageScore = NaN

----------------------------------------------------------------------------
(* Properties of the AI generator of the page (SpecGenerator)              *)

\* C30: whenever selectedRowForAI is not null it is a selected row
C30_GeneratorRowSelected == selectedRowForAI \subseteq selectedRows

\* C30, the failing case: the generator was opened for the second of two
\* rows and the selection was cleared: the generator is still open for that
\* row and nothing is selected
C30_GeneratorOpenUnselected ==
    /\ call = "onClearSelection"
    /\ Len(metadataList) = 2
    /\ selectedRowForAI = {1}
    /\ selectedRows = {}

====
